---- MODULE Spec2Model ----
(***************************************************************************)
(* Model of the DNA motif finder: work partitioning, the scatter /         *)
(* broadcast / gather protocol of MPIManager, the OpenMP batch of          *)
(* ParallelProcessor, and the lifecycle of the MPI runtime.                *)
(*                                                                         *)
(* Strings are modelled as sequences of one-character strings.             *)
(***************************************************************************)
EXTENDS Integers, Sequences, FiniteSets, TLC

VARIABLES
    \* --- partition driver (MPIManager::calculateWorkDistribution) ---
    total_sequences,   \* N handed to calculateWorkDistribution
    total_processes,   \* P handed to calculateWorkDistribution
    parts,             \* partitions computed so far, rank 0 first
    \* --- one MPI job: P ranks running ParallelProcessor::processMotifs ---
    size_,             \* MPI_Comm_size
    eagerLimit,        \* messages per channel MPI buffers before a send blocks
    all_sequences,     \* per rank: the list that rank loaded
    motifs,            \* per rank: the motif list that rank loaded
    pc,                \* per rank: position in processMotifs
    loc,               \* per rank: locals of the running MPIManager call
    chan,              \* chan[src][dst]: point-to-point messages in flight
    bcastLog,          \* payloads the root has broadcast, in order
    bcastSeen,         \* per rank: number of broadcasts completed
    local_sequences,   \* per rank: result of distributeSequences
    local_motifs,      \* per rank: result of broadcastMotifs
    local_results,     \* per rank: result of processMotifsParallel
    all_results,       \* per rank: result of gatherResults / processMotifs
    comm_stats_,       \* per rank: MPIManager byte counters
    runs,              \* per rank: processMotifs calls completed
    mpiError,          \* an MPI call failed (truncation, type mismatch)
    \* --- one call of ParallelProcessor::processMotifsParallel ---
    omp_threads,       \* size of the OpenMP team
    batch_sequences,   \* argument: the local sequences
    batch_motifs,      \* argument: the motifs
    batch,             \* "idle", "region", "returned" or "crashed"
    next_iteration,    \* schedule(dynamic): next loop index to hand out
    thread,            \* per thread: position in the parallel region
    thread_i,          \* per thread: loop index in hand
    thread_result,     \* per thread: MotifResult of the index in hand
    thread_results,    \* per thread: its private local_results
    batch_results,     \* the shared output list
    critical_owner,    \* thread inside the critical section, 0 if none
    stats_writers,     \* threads inside MotifFinder::updatePerformanceStats
    stats_raced,       \* threads whose write overlapped another thread's
    finder_stats,      \* MotifFinder::performance_stats_: "empty", "written"
                       \* or "corrupt"
    processor_stats,   \* keys of ParallelProcessor::performance_stats_
    \* --- object lifecycle inside one operating-system process ---
    mpi_runtime,       \* "not_started", "started" or "finalized"
    runtime_starts,    \* successful MPI_Init calls
    runtime_teardowns, \* MPI_Finalize calls
    late_operations,   \* runtime operations issued while it was not up
    process_aborted,   \* the process was ended, by the MPI library or a signal
    objects,           \* the ParallelProcessor and MPIManager objects
    api_calls,         \* calls made so far by the client code
    last_call,         \* the latest client call and how it ended
    \* --- direct calls of the pure member functions ---
    partition_call,    \* the latest calculateWorkDistribution call
    codes_call,        \* the latest call on an IUPACCodes object
    kernel_call,       \* a MotifFinder, its inputs and its latest call
    main_call,         \* the command line of the program and how main ended
    parser_call        \* a file and the latest DNAParser call on it

mpiVars == <<size_, eagerLimit, all_sequences, motifs, pc, loc, chan,
             bcastLog, bcastSeen, local_sequences, local_motifs, local_results,
             all_results, comm_stats_, runs, mpiError>>
partVars == <<total_sequences, total_processes, parts>>
ompVars == <<omp_threads, batch_sequences, batch_motifs, batch, next_iteration, thread,
             thread_i, thread_result, thread_results, batch_results, critical_owner,
             stats_writers, stats_raced, finder_stats, processor_stats>>
lifeVars == <<mpi_runtime, runtime_starts, runtime_teardowns, late_operations,
              process_aborted, objects, api_calls, last_call>>
callVars == <<partition_call, codes_call, kernel_call, main_call, parser_call>>
vars == <<partVars, mpiVars, ompVars, lifeVars, callVars>>

-----------------------------------------------------------------------------
(* Bounds of the model *)
MaxN == 12        \* largest item count given to the partition driver
MaxP == 4         \* largest process count given to the partition driver
MaxSize == 3      \* largest number of ranks calling one collective operation
MaxJobLoad == 3   \* whole processMotifs calls: ranks plus motifs loaded
MaxSeqs == 3      \* longest sequence list a rank loads
MaxBcast == 2     \* longest motif list handed to broadcastMotifs alone
MaxResults == 2   \* longest result list handed to gatherResults alone
MaxThreads == 2   \* largest OpenMP team
MaxBatchSeqs == 2   \* longest sequence list handed to processMotifsParallel
MaxBatchMotifs == 3 \* longest motif list handed to processMotifsParallel
MaxObjects == 2   \* ParallelProcessor / MPIManager objects a process creates
MaxCalls == 6     \* client calls (constructions included) in one process
MaxLoaded == 3    \* motifs a processMotifs call of that process loads
MaxRuns == 2      \* processMotifs calls per rank
MaxEager == 1     \* messages MPI buffers per channel when it buffers at all
MaxCallP == 10    \* largest process count of a direct partition call
MaxSymbols == 3   \* longest sequence of the exhaustive kernel inputs
MaxPatternLen == 2  \* longest pattern of the exhaustive kernel inputs
MaxCorpus == 2    \* longest sequence list given to the kernel
MaxKernelMotifs == 2  \* longest motif list given to the kernel
MaxTop == 2       \* offsets 2^64 - 1 .. 2^64 - MaxTop given to matchesMotif
MaxBarriers == 4  \* synchronize calls per rank
MaxArgs == 4      \* command-line arguments after the program name
MaxLines == 4     \* lines of a sequence file
MaxHigh == 2      \* a size_t length or count is below (MaxHigh + 1) * 2^31
MaxTasks == 2     \* Task objects, and findMotifsAsync calls, of one process

(* Machine limits: int is 32 bits wide; every size_t value the model reaches *)
(* is far below 2^64, so size_t arithmetic is plain natural arithmetic.      *)
INT_MAX == 2147483647
INT_MIN == -2147483647 - 1

(* static_cast<int>(n) of a non-negative size_t n: values above INT_MAX wrap *)
ToInt(n) == IF n <= INT_MAX THEN n ELSE (n - INT_MAX - 1) + INT_MIN

Min(a, b) == IF a < b THEN a ELSE b

-----------------------------------------------------------------------------
(* a faulty variant: the start offset adds extra_work without the min() *)
calculateWorkDistributionNoMin(N, process_rank, P) ==
    LET base_work  == N \div P
        extra_work == N % P
    IN  [start |-> process_rank * base_work + extra_work,
         count |-> base_work + (IF process_rank < extra_work THEN 1 ELSE 0)]

(* MPIManager::calculateWorkDistribution *)
calculateWorkDistribution(N, process_rank, P) ==
    LET base_work  == N \div P
        extra_work == N % P
    IN  [start |-> process_rank * base_work + Min(process_rank, extra_work),
         count |-> base_work
                     + (IF process_rank < ToInt(extra_work) THEN 1 ELSE 0)]

-----------------------------------------------------------------------------
(* IUPAC table and the matching kernel *)

(* std::toupper in the C locale: the 26 lower-case letters go to their       *)
(* upper-case forms, every other character is returned as it is              *)
LowerToUpper ==
    LET lower == <<"a", "b", "c", "d", "e", "f", "g", "h", "i", "j", "k", "l",
                   "m", "n", "o", "p", "q", "r", "s", "t", "u", "v", "w", "x",
                   "y", "z">>
        upper == <<"A", "B", "C", "D", "E", "F", "G", "H", "I", "J", "K", "L",
                   "M", "N", "O", "P", "Q", "R", "S", "T", "U", "V", "W", "X",
                   "Y", "Z">>
    IN  [c \in {lower[i] : i \in 1 .. 26} |->
            upper[CHOOSE i \in 1 .. 26 : lower[i] = c]]
toupper(c) == IF c \in DOMAIN LowerToUpper THEN LowerToUpper[c] ELSE c

(* IUPACCodes::initializeIUPACMap: code -> nucleotides, in addMapping order *)
iupac_map_ ==
    [c \in {"A", "T", "G", "C", "R", "Y", "S", "W", "K", "M", "B", "D", "H",
            "V", "N"} |->
        CASE c = "A" -> <<"A">>
          [] c = "T" -> <<"T">>
          [] c = "G" -> <<"G">>
          [] c = "C" -> <<"C">>
          [] c = "R" -> <<"A", "G">>
          [] c = "Y" -> <<"T", "C">>
          [] c = "S" -> <<"G", "C">>
          [] c = "W" -> <<"A", "T">>
          [] c = "K" -> <<"G", "T">>
          [] c = "M" -> <<"A", "C">>
          [] c = "B" -> <<"C", "G", "T">>
          [] c = "D" -> <<"A", "G", "T">>
          [] c = "H" -> <<"A", "C", "T">>
          [] c = "V" -> <<"A", "C", "G">>
          [] c = "N" -> <<"A", "T", "G", "C">>]

(* a faulty variant: the code is looked up without upper-casing it *)
isValidIUPACCodeNoFold(code) == code \in DOMAIN iupac_map_

(* valid_codes_[c] is set by addMapping for exactly the mapped codes *)
isValidIUPACCode(code) == toupper(code) \in DOMAIN iupac_map_

(* a faulty variant: an ambiguous code stands for its first nucleotide only *)
getNucleotidesFirstOnly(code) ==
    IF ~isValidIUPACCode(toupper(code)) THEN <<>>
    ELSE <<iupac_map_[toupper(code)][1]>>

getNucleotides(code) ==
    IF ~isValidIUPACCode(toupper(code)) THEN <<>> ELSE iupac_map_[toupper(code)]

(* a faulty variant: the nucleotide is compared without upper-casing it *)
matchesCaseSensitive(nucleotide, iupac_code) ==
    LET upper_nucleotide == nucleotide
        upper_iupac_code == toupper(iupac_code)
    IN  IF ~isValidIUPACCode(upper_iupac_code) THEN FALSE
        ELSE \E k \in DOMAIN getNucleotides(upper_iupac_code) :
                 getNucleotides(upper_iupac_code)[k] = upper_nucleotide

matches(nucleotide, iupac_code) ==
    LET upper_nucleotide == toupper(nucleotide)
        upper_iupac_code == toupper(iupac_code)
    IN  IF ~isValidIUPACCode(upper_iupac_code) THEN FALSE
        ELSE \E k \in DOMAIN getNucleotides(upper_iupac_code) :
                 getNucleotides(upper_iupac_code)[k] = upper_nucleotide

(* IUPACCodes::matchesMotif; start_pos is 0-based *)
matchesMotif(sequence, motif, start_pos) ==
    IF start_pos + Len(motif) > Len(sequence) THEN FALSE
    ELSE \A i \in 0 .. Len(motif) - 1 :
             matches(sequence[start_pos + i + 1], motif[i + 1])

RECURSIVE FilterPositions(_, _, _, _)
FilterPositions(sequence, motif, pos, max_pos) ==
    IF pos > max_pos THEN <<>>
    ELSE (IF matchesMotif(sequence, motif, pos) THEN <<pos>> ELSE <<>>)
             \o FilterPositions(sequence, motif, pos + 1, max_pos)

(* a faulty variant: the last window of the sequence is not tried *)
findMotifMatchesDropsLast(sequence, motif) ==
    IF Len(sequence) < Len(motif) THEN <<>>
    ELSE FilterPositions(sequence, motif, 0, Len(sequence) - Len(motif) - 1)

(* IUPACCodes::findMotifMatches *)
findMotifMatches(sequence, motif) ==
    IF Len(sequence) < Len(motif) THEN <<>>
    ELSE FilterPositions(sequence, motif, 0, Len(sequence) - Len(motif))

(* MotifFinder::findMotifInSequence *)
findMotifInSequence(sequence, motif, sequence_index) ==
    IF Len(sequence.sequence) < Len(motif.pattern) THEN <<>>
    ELSE LET match_positions == findMotifMatches(sequence.sequence, motif.pattern)
         IN  [k \in DOMAIN match_positions |->
                 [sequence_index   |-> sequence_index,
                  position         |-> match_positions[k],
                  matched_sequence |->
                      SubSeq(sequence.sequence, match_positions[k] + 1,
                             match_positions[k] + Len(motif.pattern))]]

(* A double holding the quotient of two small naturals, as a reduced fraction *)
RECURSIVE GCD(_, _)
GCD(a, b) == IF b = 0 THEN a ELSE GCD(b, a % b)
Quotient(a, b) == [num |-> a \div GCD(a, b), den |-> b \div GCD(a, b)]
Zero == [num |-> 0, den |-> 1]

(* a faulty variant: the count is divided by one more than the total *)
calculateFrequencyOffByOne(match_count, total) ==
    IF total > 0 THEN Quotient(match_count, total + 1) ELSE Zero

(* MotifResult::calculateFrequency *)
calculateFrequency(match_count, total) ==
    IF total > 0 THEN Quotient(match_count, total) ELSE Zero

(* a faulty variant: every occurrence is counted and recorded *)
RECURSIVE ScanSequencesEveryOccurrence(_, _, _, _)
ScanSequencesEveryOccurrence(sequences, motif, i, result) ==
    IF i > Len(sequences) THEN result
    ELSE LET found == findMotifInSequence(sequences[i], motif, i - 1)
         IN  ScanSequencesEveryOccurrence(sequences, motif, i + 1,
                 [result EXCEPT !.match_count = @ + Len(found),
                                !.matches = @ \o found])

(* the loop of MotifFinder::findSingleMotif over sequences[i..] *)
RECURSIVE ScanSequences(_, _, _, _)
ScanSequences(sequences, motif, i, result) ==
    IF i > Len(sequences) THEN result
    ELSE LET found == findMotifInSequence(sequences[i], motif, i - 1)
         IN  ScanSequences(sequences, motif, i + 1,
                 IF found # <<>>
                 THEN [result EXCEPT !.match_count = @ + 1,
                                     !.matches = Append(@, found[1])]
                 ELSE result)

(* MotifFinder::findSingleMotif *)
findSingleMotif(sequences, motif) ==
    LET scanned == ScanSequences(sequences, motif, 1,
                       [motif_pattern |-> motif.pattern, match_count |-> 0,
                        frequency |-> Zero, matches |-> <<>>])
    IN  [scanned EXCEPT
            !.frequency = calculateFrequency(scanned.match_count, Len(sequences))]

-----------------------------------------------------------------------------
(* Message passing *)

Ranks == 0 .. size_ - 1
isMaster(r) == r = 0

RECURSIVE Flatten(_)
Flatten(ss) == IF ss = <<>> THEN <<>> ELSE Head(ss) \o Flatten(Tail(ss))

Take(str, n) == SubSeq(str, 1, Min(n, Len(str)))

(* one MPI message: tag, element type, element count, payload *)
Msg(tag, type, count, data) ==
    [tag |-> tag, type |-> type, count |-> count, data |-> data]

(* object sizes used by updateCommStats (LP64, libstdc++) *)
SizeofChIPSequence == 88
SizeofMotif == 56
SizeofMotifResult == 72

(* MPIManager::updateCommStats, byte counter of one operation *)
updateCommStats(stats, operation, bytes) ==
    [stats EXCEPT ![operation] = @ + bytes]

(* a faulty variant: a send returns whether or not it has been received *)
SendDoneAlways(r) == TRUE

(* MPI_Send has returned on rank r: MPI buffers at most eagerLimit unmatched *)
(* messages per channel, so with eagerLimit = 0 a send returns only when its *)
(* receive has been posted.  The same holds for the root of MPI_Bcast and    *)
(* the ranks that still have to enter it.                                    *)
SendDone(r) ==
    /\ \A d \in Ranks : Len(chan[r][d]) <= eagerLimit
    /\ isMaster(r) => \A w \in Ranks : Len(bcastLog) - bcastSeen[w] <= eagerLimit

(* MPI_Recv(src, tag) on rank r matches the earliest message of that tag *)
HasMatch(src, r, tag) == \E k \in DOMAIN chan[src][r] : chan[src][r][k].tag = tag
MatchIndex(src, r, tag) ==
    CHOOSE k \in DOMAIN chan[src][r] :
        /\ chan[src][r][k].tag = tag
        /\ \A j \in 1 .. k - 1 : chan[src][r][j].tag # tag
RemoveAt(q, k) == SubSeq(q, 1, k - 1) \o SubSeq(q, k + 1, Len(q))

(* the receive is erroneous: other element type, or more elements than room *)
RecvFails(msg, type, count) == msg.type # type \/ msg.count > count

(* std::string::resize(n) of an empty string and std::string(n, 0), n an    *)
(* int: a negative n converts to a size_t above max_size() and the call      *)
(* throws std::length_error                                                  *)
ResizeThrows(n) == n < 0
Resize(n) ==
    IF ResizeThrows(n) THEN [thrown |-> TRUE, value |-> <<>>]
    ELSE [thrown |-> FALSE, value |-> [k \in 1 .. n |-> "\\0"]]
(* std::vector::reserve(n), n an int: throws std::length_error likewise *)
ReserveThrows(n) == n < 0
(* the exception leaves the function *)
LengthError(l) == [l EXCEPT !.at = "length_error"]
(* the buffer after a receive delivered msg into it *)
RecvInto(buffer, msg) ==
    msg.data \o SubSeq(buffer, Len(msg.data) + 1, Len(buffer))

-----------------------------------------------------------------------------
(* MPIManager::distributeSequences, master branch: the sends in program order *)

EncodeMetadata(meta) ==
    LET meta_len == ToInt(Len(meta))
    IN  << Msg(7, "MPI_INT", 1, <<meta_len>>),
           Msg(8, "MPI_CHAR", meta_len, Take(meta, meta_len)) >>

(* a faulty variant: the id is sent with length zero *)
EncodeSequenceNoId(seq) ==
    LET id_len     == 0
        seq_len    == ToInt(Len(seq.sequence))
        meta_count == ToInt(Len(seq.metadata))
    IN  << Msg(2, "MPI_INT", 1, <<id_len>>),
           Msg(3, "MPI_CHAR", id_len, Take(seq.id, id_len)),
           Msg(4, "MPI_INT", 1, <<seq_len>>),
           Msg(5, "MPI_CHAR", seq_len, Take(seq.sequence, seq_len)),
           Msg(6, "MPI_INT", 1, <<meta_count>>) >>
        \o Flatten([j \in DOMAIN seq.metadata |-> EncodeMetadata(seq.metadata[j])])

EncodeSequence(seq) ==
    LET id_len     == ToInt(Len(seq.id))
        seq_len    == ToInt(Len(seq.sequence))
        meta_count == ToInt(Len(seq.metadata))
    IN  << Msg(2, "MPI_INT", 1, <<id_len>>),
           Msg(3, "MPI_CHAR", id_len, Take(seq.id, id_len)),
           Msg(4, "MPI_INT", 1, <<seq_len>>),
           Msg(5, "MPI_CHAR", seq_len, Take(seq.sequence, seq_len)),
           Msg(6, "MPI_INT", 1, <<meta_count>>) >>
        \o Flatten([j \in DOMAIN seq.metadata |-> EncodeMetadata(seq.metadata[j])])

To(dest, msgs) == [k \in DOMAIN msgs |-> [dest |-> dest, msg |-> msgs[k]]]

(* a faulty variant: the slice sent starts one element early *)
DistributeSendsToOffByOne(seqs, dest, size) ==
    LET work_dist == calculateWorkDistribution(Len(seqs), dest, size)
    IN  To(dest, << Msg(1, "MPI_UNSIGNED_LONG", 1, <<work_dist.count>>) >>
                 \o Flatten([i \in 1 .. work_dist.count |->
                                EncodeSequence(seqs[work_dist.start + i - 1])]))

DistributeSendsTo(seqs, dest, size) ==
    LET work_dist == calculateWorkDistribution(Len(seqs), dest, size)
    IN  To(dest, << Msg(1, "MPI_UNSIGNED_LONG", 1, <<work_dist.count>>) >>
                 \o Flatten([i \in 1 .. work_dist.count |->
                                EncodeSequence(seqs[work_dist.start + i])]))

DistributeSends(seqs, size) ==
    [d \in 1 .. size - 1 |->
        [dest |-> d, msg |-> Msg(0, "MPI_UNSIGNED_LONG", 1, <<Len(seqs)>>)]]
    \o Flatten([d \in 1 .. size - 1 |-> DistributeSendsTo(seqs, d, size)])

(* the master on entry: its sends, none of them issued yet *)
DistributeMasterInit(seqs, size) ==
    [at |-> "send", k |-> 1, sends |-> DistributeSends(seqs, size)]

(* a faulty variant: the master keeps the whole list *)
MasterPortionWholeList(seqs, size) == seqs

(* master keeps its own portion *)
MasterPortion(seqs, size) ==
    LET work_dist == calculateWorkDistribution(Len(seqs), 0, size)
    IN  SubSeq(seqs, work_dist.start + 1, work_dist.start + work_dist.count)

(* a faulty variant: score1 and score2 change places on the wire *)
EncodeMotifSwapped(motif) ==
    LET pattern_len == ToInt(Len(motif.pattern))
    IN  << Msg(0, "MPI_INT", 1, <<pattern_len>>),
           Msg(0, "MPI_CHAR", pattern_len, Take(motif.pattern, pattern_len)),
           Msg(0, "MPI_DOUBLE", 3, <<motif.score2, motif.score1, motif.score3>>) >>

(* MPIManager::broadcastMotifs, master branch: the broadcasts in program order *)
EncodeMotif(motif) ==
    LET pattern_len == ToInt(Len(motif.pattern))
    IN  << Msg(0, "MPI_INT", 1, <<pattern_len>>),
           Msg(0, "MPI_CHAR", pattern_len, Take(motif.pattern, pattern_len)),
           Msg(0, "MPI_DOUBLE", 3, <<motif.score1, motif.score2, motif.score3>>) >>

BroadcastSends(ms) ==
    << Msg(0, "MPI_INT", 1, <<ToInt(Len(ms))>>) >>
    \o Flatten([i \in DOMAIN ms |-> EncodeMotif(ms[i])])

(* the master on entry: its broadcasts, none of them issued yet *)
BroadcastMasterInit(ms) == [at |-> "send", k |-> 1, sends |-> BroadcastSends(ms)]

(* a faulty variant: the match count is sent one too high *)
EncodeResultCountPlusOne(result) ==
    LET pattern_len == ToInt(Len(result.motif_pattern))
    IN  << Msg(1, "MPI_INT", 1, <<pattern_len>>),
           Msg(2, "MPI_CHAR", pattern_len, Take(result.motif_pattern, pattern_len)),
           Msg(3, "MPI_UNSIGNED_LONG", 1, <<result.match_count + 1>>),
           Msg(4, "MPI_DOUBLE", 1, <<result.frequency>>) >>

(* a faulty variant: the frequency is sent before the match count *)
EncodeResultFrequencyFirst(result) ==
    LET pattern_len == ToInt(Len(result.motif_pattern))
    IN  << Msg(1, "MPI_INT", 1, <<pattern_len>>),
           Msg(2, "MPI_CHAR", pattern_len, Take(result.motif_pattern, pattern_len)),
           Msg(4, "MPI_DOUBLE", 1, <<result.frequency>>),
           Msg(3, "MPI_UNSIGNED_LONG", 1, <<result.match_count>>) >>

(* MPIManager::gatherResults, worker branch: the sends in program order *)
EncodeResult(result) ==
    LET pattern_len == ToInt(Len(result.motif_pattern))
    IN  << Msg(1, "MPI_INT", 1, <<pattern_len>>),
           Msg(2, "MPI_CHAR", pattern_len, Take(result.motif_pattern, pattern_len)),
           Msg(3, "MPI_UNSIGNED_LONG", 1, <<result.match_count>>),
           Msg(4, "MPI_DOUBLE", 1, <<result.frequency>>) >>

(* a faulty variant: the worker sends its results last to first *)
GatherSendsReversed(results) ==
    << Msg(0, "MPI_INT", 1, <<ToInt(Len(results))>>) >>
    \o Flatten([i \in DOMAIN results |->
                   EncodeResult(results[Len(results) + 1 - i])])

(* a faulty variant: the worker omits the count message *)
GatherSendsNoCount(results) ==
    Flatten([i \in DOMAIN results |-> EncodeResult(results[i])])

GatherSends(results) ==
    << Msg(0, "MPI_INT", 1, <<ToInt(Len(results))>>) >>
    \o Flatten([i \in DOMAIN results |-> EncodeResult(results[i])])

(* a worker on entry: its sends, none of them issued yet *)
GatherWorkerInit(results) ==
    [at |-> "send", k |-> 1, sends |-> GatherSends(results)]

-----------------------------------------------------------------------------
(* Receiving sides, one step per MPI_Recv / MPI_Bcast call.  "at" names the   *)
(* call the rank is about to make; Want gives its tag, type and count.        *)

Want(tag, type, count) == [tag |-> tag, type |-> type, count |-> count]

EmptySequence == [id |-> <<>>, sequence |-> <<>>, metadata |-> <<>>]
EmptyMotif == [pattern |-> <<>>, score1 |-> 0, score2 |-> 0, score3 |-> 0]
EmptyResult == [motif_pattern |-> <<>>, match_count |-> 0, frequency |-> Zero,
                matches |-> <<>>]

(* MPIManager::distributeSequences, worker branch *)
DistributeWorkerInit ==
    [at |-> "total", total |-> 0, count |-> 0, i |-> 0, len |-> 0,
     meta_count |-> 0, j |-> 0, seq |-> EmptySequence, out |-> <<>>]

DistributeWant(l) ==
    CASE l.at = "total"      -> Want(0, "MPI_UNSIGNED_LONG", 1)
      [] l.at = "count"      -> Want(1, "MPI_UNSIGNED_LONG", 1)
      [] l.at = "id_len"     -> Want(2, "MPI_INT", 1)
      [] l.at = "id"         -> Want(3, "MPI_CHAR", l.len)
      [] l.at = "seq_len"    -> Want(4, "MPI_INT", 1)
      [] l.at = "seq"        -> Want(5, "MPI_CHAR", l.len)
      [] l.at = "meta_count" -> Want(6, "MPI_INT", 1)
      [] l.at = "meta_len"   -> Want(7, "MPI_INT", 1)
      [] l.at = "meta"       -> Want(8, "MPI_CHAR", l.len)

(* local_sequences.push_back(seq) and the step of the outer loop *)
DistributePush(l, seq) ==
    [l EXCEPT !.out = Append(@, seq), !.i = @ + 1, !.seq = EmptySequence,
              !.at = IF l.i + 1 < l.count THEN "id_len" ELSE "end"]

DistributeAfterRecv(l, msg) ==
    CASE l.at = "total" -> [l EXCEPT !.total = msg.data[1], !.at = "count"]
      [] l.at = "count" ->
            [l EXCEPT !.count = msg.data[1], !.i = 0,
                      !.at = IF 0 < msg.data[1] THEN "id_len" ELSE "end"]
      [] l.at = "id_len" ->
            IF ResizeThrows(msg.data[1]) THEN LengthError(l)
            ELSE [l EXCEPT !.len = msg.data[1],
                           !.seq.id = Resize(msg.data[1]).value, !.at = "id"]
      [] l.at = "id" ->
            [l EXCEPT !.seq.id = RecvInto(@, msg), !.at = "seq_len"]
      [] l.at = "seq_len" ->
            IF ResizeThrows(msg.data[1]) THEN LengthError(l)
            ELSE [l EXCEPT !.len = msg.data[1],
                           !.seq.sequence = Resize(msg.data[1]).value,
                           !.at = "seq"]
      [] l.at = "seq" ->
            [l EXCEPT !.seq.sequence = RecvInto(@, msg), !.at = "meta_count"]
      [] l.at = "meta_count" ->
            IF ReserveThrows(msg.data[1]) THEN LengthError(l)
            ELSE IF 0 < msg.data[1]
            THEN [l EXCEPT !.meta_count = msg.data[1], !.j = 0, !.at = "meta_len"]
            ELSE DistributePush([l EXCEPT !.meta_count = msg.data[1], !.j = 0],
                                l.seq)
      [] l.at = "meta_len" ->
            IF ResizeThrows(msg.data[1]) THEN LengthError(l)
            ELSE [l EXCEPT !.len = msg.data[1], !.at = "meta"]
      [] l.at = "meta" ->
            LET meta == RecvInto(Resize(l.len).value, msg)
                seq  == [l.seq EXCEPT !.metadata = Append(@, meta)]
            IN  IF l.j + 1 < l.meta_count
                THEN [l EXCEPT !.seq = seq, !.j = @ + 1, !.at = "meta_len"]
                ELSE DistributePush([l EXCEPT !.j = @ + 1], seq)

(* MPIManager::broadcastMotifs, worker branch *)
BroadcastWorkerInit ==
    [at |-> "motif_count", motif_count |-> 0, i |-> 0, len |-> 0,
     motif |-> EmptyMotif, out |-> <<>>]

BroadcastWant(l) ==
    CASE l.at = "motif_count" -> Want(0, "MPI_INT", 1)
      [] l.at = "pattern_len" -> Want(0, "MPI_INT", 1)
      [] l.at = "pattern"     -> Want(0, "MPI_CHAR", l.len)
      [] l.at = "scores"      -> Want(0, "MPI_DOUBLE", 3)

BroadcastAfterRecv(l, msg) ==
    CASE l.at = "motif_count" ->
            IF ReserveThrows(msg.data[1]) THEN LengthError(l)
            ELSE [l EXCEPT !.motif_count = msg.data[1], !.i = 0,
                           !.at = IF 0 < msg.data[1] THEN "pattern_len"
                                  ELSE "end"]
      [] l.at = "pattern_len" ->
            IF ResizeThrows(msg.data[1]) THEN LengthError(l)
            ELSE [l EXCEPT !.len = msg.data[1],
                           !.motif.pattern = Resize(msg.data[1]).value,
                           !.at = "pattern"]
      [] l.at = "pattern" ->
            [l EXCEPT !.motif.pattern = RecvInto(@, msg), !.at = "scores"]
      [] l.at = "scores" ->
            LET motif == [l.motif EXCEPT !.score1 = msg.data[1],
                                         !.score2 = msg.data[2],
                                         !.score3 = msg.data[3]]
            IN  [l EXCEPT !.out = Append(@, motif), !.i = @ + 1,
                          !.motif = EmptyMotif,
                          !.at = IF l.i + 1 < l.motif_count THEN "pattern_len"
                                 ELSE "end"]

(* a faulty variant: the master's own results lose their match lists too *)
GatherMasterInitNoMatches(own, size) ==
    [at |-> IF 1 < size THEN "result_count" ELSE "end", src |-> 1,
     result_count |-> 0, i |-> 0, len |-> 0, result |-> EmptyResult,
     out |-> [i \in DOMAIN own |-> [own[i] EXCEPT !.matches = <<>>]]]

(* MPIManager::gatherResults, master branch *)
GatherMasterInit(own, size) ==
    [at |-> IF 1 < size THEN "result_count" ELSE "end", src |-> 1,
     result_count |-> 0, i |-> 0, len |-> 0, result |-> EmptyResult,
     out |-> own]

GatherWant(l) ==
    CASE l.at = "result_count" -> Want(0, "MPI_INT", 1)
      [] l.at = "pattern_len"  -> Want(1, "MPI_INT", 1)
      [] l.at = "pattern"      -> Want(2, "MPI_CHAR", l.len)
      [] l.at = "match_count"  -> Want(3, "MPI_UNSIGNED_LONG", 1)
      [] l.at = "frequency"    -> Want(4, "MPI_DOUBLE", 1)

(* the step of the loop over src *)
GatherNextSource(l, size) ==
    [l EXCEPT !.src = @ + 1,
              !.at = IF l.src + 1 < size THEN "result_count" ELSE "end"]

GatherAfterRecv(l, msg, size) ==
    CASE l.at = "result_count" ->
            IF 0 < msg.data[1]
            THEN [l EXCEPT !.result_count = msg.data[1], !.i = 0,
                           !.at = "pattern_len"]
            ELSE GatherNextSource([l EXCEPT !.result_count = msg.data[1],
                                            !.i = 0], size)
      [] l.at = "pattern_len" ->
            IF ResizeThrows(msg.data[1]) THEN LengthError(l)
            ELSE [l EXCEPT !.len = msg.data[1],
                           !.result = [EmptyResult EXCEPT
                                 !.motif_pattern = Resize(msg.data[1]).value],
                           !.at = "pattern"]
      [] l.at = "pattern" ->
            [l EXCEPT !.result.motif_pattern = RecvInto(@, msg),
                      !.at = "match_count"]
      [] l.at = "match_count" ->
            [l EXCEPT !.result.match_count = msg.data[1], !.at = "frequency"]
      [] l.at = "frequency" ->
            LET result == [l.result EXCEPT !.frequency = msg.data[1]]
                pushed == [l EXCEPT !.out = Append(@, result), !.i = @ + 1,
                                    !.result = EmptyResult]
            IN  IF l.i + 1 < l.result_count
                THEN [pushed EXCEPT !.at = "pattern_len"]
                ELSE GatherNextSource(pushed, size)

-----------------------------------------------------------------------------
(* ParallelProcessor::processMotifsParallel: what the OpenMP region can       *)
(* return.  schedule(dynamic) hands every index to some thread, a thread      *)
(* takes its indices in ascending order, and the threads append their         *)
(* private lists to the shared list in the order they enter the critical     *)
(* section.                                                                   *)

RECURSIVE IndicesOf(_, _, _)
IndicesOf(owner, t, i) ==
    IF i > Len(owner) THEN <<>>
    ELSE (IF owner[i] = t THEN <<i>> ELSE <<>>) \o IndicesOf(owner, t, i + 1)

MergedIndices(owner, order) ==
    Flatten([n \in DOMAIN order |-> IndicesOf(owner, order[n], 1)])

ParallelOrders(K, T) ==
    {MergedIndices(owner, order) :
        owner \in [1 .. K -> 1 .. T], order \in Permutations(1 .. T)}

(* Every findSingleMotif ends in MotifFinder::updatePerformanceStats, an     *)
(* unlocked write of the map all threads share: with two threads and two     *)
(* motifs or more two such writes can overlap, a data race, on which the     *)
(* process may be killed inside the region instead of returning a list       *)
processMotifsParallelOutcomes(sequences, ms, T) ==
    LET found == [i \in DOMAIN ms |-> findSingleMotif(sequences, ms[i])]
    IN  {[outcome |-> "returned", results |-> [n \in DOMAIN idx |-> found[idx[n]]]] :
            idx \in ParallelOrders(Len(ms), T)}
        \cup (IF T >= 2 /\ Len(ms) >= 2
              THEN {[outcome |-> "killed", results |-> <<>>]} ELSE {})

-----------------------------------------------------------------------------
(* Inputs *)

SeqPool ==
    << [id |-> <<"s", "1">>, sequence |-> <<"A", "T", "G", "C">>,
        metadata |-> << <<"m", "1">>, <<"x">> >>],
       [id |-> <<"s", "2">>, sequence |-> <<"T", "T", "T", "T">>,
        metadata |-> << <<"m">> >>],
       [id |-> <<"s", "3">>, sequence |-> <<"a", "g", "t", "T">>,
        metadata |-> <<>>],
       [id |-> <<"s", "4">>, sequence |-> <<"G", "T", "A", "T">>,
        metadata |-> <<>>],
       [id |-> <<"s", "5">>, sequence |-> <<"C", "C", "C", "C">>,
        metadata |-> << <<"z">> >>] >>

MotifPool ==
    << [pattern |-> <<"A", "T">>, score1 |-> 1, score2 |-> 2, score3 |-> 3],
       [pattern |-> <<"R", "T">>, score1 |-> 4, score2 |-> 5, score3 |-> 6],
       [pattern |-> <<"T", "T">>, score1 |-> 7, score2 |-> 8, score3 |-> 9],
       [pattern |-> <<"N", "C">>, score1 |-> 3, score2 |-> 2, score3 |-> 1] >>

(* what a worker loads when its files are not the coordinator's *)
OtherSequences == << SeqPool[5] >>
OtherMotifs == << MotifPool[4] >>

(* the lists the ranks hold: every rank loaded the coordinator's files, but   *)
(* the odd ranks, whose working directory holds other files of these names   *)
LoadedSequences(n) ==
    [r \in Ranks |-> IF r % 2 = 1 THEN OtherSequences ELSE SubSeq(SeqPool, 1, n)]
LoadedMotifs(k) ==
    [r \in Ranks |-> IF r % 2 = 1 THEN OtherMotifs ELSE SubSeq(MotifPool, 1, k)]

StatsInit == [distribute_sequences_bytes |-> 0, broadcast_motifs_bytes |-> 0,
              gather_results_bytes |-> 0]

-----------------------------------------------------------------------------
(* One MPI job: every rank runs ParallelProcessor::processMotifs *)

(* what does not depend on the operation the ranks are about to call *)
CommInit ==
    /\ eagerLimit \in {0, MaxEager}
    /\ chan = [s \in Ranks |-> [d \in Ranks |-> <<>>]]
    /\ bcastLog = <<>>
    /\ bcastSeen = [r \in Ranks |-> 0]
    /\ comm_stats_ = [r \in Ranks |-> StatsInit]
    /\ runs = [r \in Ranks |-> 0]
    /\ mpiError = FALSE
    /\ all_results = [r \in Ranks |-> <<>>]

(* every rank is about to call processMotifs *)
JobInit ==
    /\ size_ \in 1 .. MaxJobLoad - 1
    /\ \E n \in 0 .. MaxSeqs : all_sequences = LoadedSequences(n)
    /\ \E k \in 0 .. MaxJobLoad - size_ : motifs = LoadedMotifs(k)
    /\ pc = [r \in Ranks |-> "idle"]
    /\ loc = [r \in Ranks |-> [at |-> "none"]]
    /\ local_sequences = [r \in Ranks |-> <<>>]
    /\ local_motifs = [r \in Ranks |-> <<>>]
    /\ local_results = [r \in Ranks |-> <<>>]
    /\ CommInit

(* every rank is about to call distributeSequences on its manager *)
ScatterInit ==
    /\ size_ \in 1 .. MaxSize
    /\ \E n \in 0 .. MaxSeqs : all_sequences = LoadedSequences(n)
    /\ motifs = [r \in Ranks |-> <<>>]
    /\ pc = [r \in Ranks |-> "distribute"]
    /\ loc = [r \in Ranks |-> IF isMaster(r)
                              THEN DistributeMasterInit(all_sequences[r], size_)
                              ELSE DistributeWorkerInit]
    /\ local_sequences = [r \in Ranks |-> <<>>]
    /\ local_motifs = [r \in Ranks |-> <<>>]
    /\ local_results = [r \in Ranks |-> <<>>]
    /\ CommInit

(* every rank is about to call broadcastMotifs on its manager *)
BroadcastInit ==
    /\ size_ \in 1 .. MaxSize
    /\ all_sequences = [r \in Ranks |-> <<>>]
    /\ \E k \in 0 .. MaxBcast : motifs = LoadedMotifs(k)
    /\ pc = [r \in Ranks |-> "broadcast"]
    /\ loc = [r \in Ranks |-> IF isMaster(r) THEN BroadcastMasterInit(motifs[r])
                              ELSE BroadcastWorkerInit]
    /\ local_sequences = [r \in Ranks |-> <<>>]
    /\ local_motifs = [r \in Ranks |-> <<>>]
    /\ local_results = [r \in Ranks |-> <<>>]
    /\ CommInit

(* the lists a worker may pass where the coordinator passes list *)
WorkerLists(list, other) == {<<>>, other, list}

(* every rank is about to call distributeSequences, every worker with a list *)
(* of its own                                                                *)
ScatterArgsInit ==
    /\ size_ \in 1 .. MaxSize
    /\ \E n \in 0 .. MaxSeqs :
       \E own \in [Ranks -> WorkerLists(SubSeq(SeqPool, 1, n), OtherSequences)] :
          all_sequences = [r \in Ranks |-> IF isMaster(r) THEN SubSeq(SeqPool, 1, n)
                                          ELSE own[r]]
    /\ motifs = [r \in Ranks |-> <<>>]
    /\ pc = [r \in Ranks |-> "distribute"]
    /\ loc = [r \in Ranks |-> IF isMaster(r)
                              THEN DistributeMasterInit(all_sequences[r], size_)
                              ELSE DistributeWorkerInit]
    /\ local_sequences = [r \in Ranks |-> <<>>]
    /\ local_motifs = [r \in Ranks |-> <<>>]
    /\ local_results = [r \in Ranks |-> <<>>]
    /\ CommInit

(* every rank is about to call broadcastMotifs, every worker with a list of  *)
(* its own                                                                   *)
BroadcastArgsInit ==
    /\ size_ \in 1 .. MaxSize
    /\ all_sequences = [r \in Ranks |-> <<>>]
    /\ \E k \in 0 .. MaxBcast :
       \E own \in [Ranks -> WorkerLists(SubSeq(MotifPool, 1, k), OtherMotifs)] :
          motifs = [r \in Ranks |-> IF isMaster(r) THEN SubSeq(MotifPool, 1, k)
                                   ELSE own[r]]
    /\ pc = [r \in Ranks |-> "broadcast"]
    /\ loc = [r \in Ranks |-> IF isMaster(r) THEN BroadcastMasterInit(motifs[r])
                              ELSE BroadcastWorkerInit]
    /\ local_sequences = [r \in Ranks |-> <<>>]
    /\ local_motifs = [r \in Ranks |-> <<>>]
    /\ local_results = [r \in Ranks |-> <<>>]
    /\ CommInit

(* the i-th result rank r holds before a gather: every (r, i) is told apart *)
(* by its match_count, and every result carries one match record            *)
HeldResult(r, i) ==
    [motif_pattern |-> IF (r + i) % 3 = 0 THEN <<>>
                       ELSE MotifPool[((r + i) % 4) + 1].pattern,
     match_count   |-> 10 * r + i,
     frequency     |-> Quotient(i, r + i + 1),
     matches       |-> << [sequence_index |-> r, position |-> i,
                           matched_sequence |-> <<"A", "T">>] >>]

(* every rank is about to call gatherResults on its manager *)
GatherInit ==
    /\ size_ \in 1 .. MaxSize
    /\ all_sequences = [r \in Ranks |-> <<>>]
    /\ motifs = [r \in Ranks |-> <<>>]
    /\ \E held \in [Ranks -> 0 .. MaxResults] :
          local_results = [r \in Ranks |->
                              [i \in 1 .. held[r] |-> HeldResult(r, i)]]
    /\ pc = [r \in Ranks |-> "gather"]
    /\ loc = [r \in Ranks |-> IF isMaster(r)
                              THEN GatherMasterInit(local_results[r], size_)
                              ELSE GatherWorkerInit(local_results[r])]
    /\ local_sequences = [r \in Ranks |-> <<>>]
    /\ local_motifs = [r \in Ranks |-> <<>>]
    /\ CommInit

(* MPI_Send of msg from rank r to dest *)
Send(r, dest, msg) == chan' = [chan EXCEPT ![r][dest] = Append(@, msg)]

(* ParallelProcessor::processMotifs, entry up to the call of distributeSequences *)
ProcessMotifs(r) ==
    /\ pc[r] = "idle"
    /\ runs[r] < MaxRuns
    /\ pc' = [pc EXCEPT ![r] = "distribute"]
    /\ loc' = [loc EXCEPT ![r] =
          IF isMaster(r) THEN DistributeMasterInit(all_sequences[r], size_)
          ELSE DistributeWorkerInit]
    /\ local_sequences' = [local_sequences EXCEPT ![r] = <<>>]
    /\ local_motifs' = [local_motifs EXCEPT ![r] = <<>>]
    /\ local_results' = [local_results EXCEPT ![r] = <<>>]
    /\ all_results' = [all_results EXCEPT ![r] = <<>>]
    /\ UNCHANGED <<size_, eagerLimit, all_sequences, motifs, chan,
                   bcastLog, bcastSeen, comm_stats_, runs, mpiError>>

(* distributeSequences on the master: the next MPI_Send *)
DistributeMasterSend(r) ==
    /\ pc[r] = "distribute" /\ isMaster(r)
    /\ SendDone(r)
    /\ loc[r].k <= Len(loc[r].sends)
    /\ LET next == loc[r].sends[loc[r].k]
       IN  Send(r, next.dest, next.msg)
    /\ loc' = [loc EXCEPT ![r].k = @ + 1]
    /\ UNCHANGED <<size_, eagerLimit, all_sequences, motifs, pc,
                   bcastLog, bcastSeen, local_sequences, local_motifs,
                   local_results, all_results, comm_stats_, runs, mpiError>>

(* distributeSequences on the master: keep the own portion and return *)
DistributeMasterReturn(r) ==
    /\ pc[r] = "distribute" /\ isMaster(r)
    /\ SendDone(r)
    /\ loc[r].k > Len(loc[r].sends)
    /\ local_sequences' =
          [local_sequences EXCEPT ![r] = MasterPortion(all_sequences[r], size_)]
    /\ comm_stats_' = [comm_stats_ EXCEPT ![r] =
          updateCommStats(@, "distribute_sequences_bytes",
                          Len(all_sequences[r]) * SizeofChIPSequence)]
    /\ pc' = [pc EXCEPT ![r] = "broadcast"]
    /\ loc' = [loc EXCEPT ![r] = BroadcastMasterInit(motifs[r])]
    /\ UNCHANGED <<size_, eagerLimit, all_sequences, motifs, chan,
                   bcastLog, bcastSeen, local_motifs, local_results,
                   all_results, runs, mpiError>>

(* distributeSequences on a worker: the next MPI_Recv from the master *)
DistributeWorkerRecv(r) ==
    /\ pc[r] = "distribute" /\ ~isMaster(r)
    /\ loc[r].at # "end"
    /\ HasMatch(0, r, DistributeWant(loc[r]).tag)
    /\ LET want == DistributeWant(loc[r])
           k    == MatchIndex(0, r, want.tag)
           msg  == chan[0][r][k]
       IN  /\ chan' = [chan EXCEPT ![0][r] = RemoveAt(@, k)]
           /\ IF RecvFails(msg, want.type, want.count)
              THEN /\ mpiError' = TRUE
                   /\ pc' = [pc EXCEPT ![r] = "aborted"]
                   /\ loc' = loc
              ELSE /\ loc' = [loc EXCEPT ![r] = DistributeAfterRecv(@, msg)]
                   /\ pc' = IF loc'[r].at = "length_error"
                            THEN [pc EXCEPT ![r] = "failed"] ELSE pc
                   /\ UNCHANGED mpiError
    /\ UNCHANGED <<size_, eagerLimit, all_sequences, motifs,
                   bcastLog, bcastSeen, local_sequences, local_motifs,
                   local_results, all_results, comm_stats_, runs>>

(* a faulty variant: the worker adds the decoded records to the list it was  *)
(* called with                                                               *)
DistributeWorkerReturnAppends(r) ==
    /\ pc[r] = "distribute" /\ ~isMaster(r)
    /\ loc[r].at = "end"
    /\ local_sequences' = [local_sequences EXCEPT ![r] =
                              all_sequences[r] \o loc[r].out]
    /\ comm_stats_' = [comm_stats_ EXCEPT ![r] =
          updateCommStats(@, "distribute_sequences_bytes",
                          Len(all_sequences[r]) * SizeofChIPSequence)]
    /\ pc' = [pc EXCEPT ![r] = "broadcast"]
    /\ loc' = [loc EXCEPT ![r] = BroadcastWorkerInit]
    /\ UNCHANGED <<size_, eagerLimit, all_sequences, motifs, chan,
                   bcastLog, bcastSeen, local_motifs, local_results,
                   all_results, runs, mpiError>>

(* distributeSequences on a worker: return the decoded records *)
DistributeWorkerReturn(r) ==
    /\ pc[r] = "distribute" /\ ~isMaster(r)
    /\ loc[r].at = "end"
    /\ local_sequences' = [local_sequences EXCEPT ![r] = loc[r].out]
    /\ comm_stats_' = [comm_stats_ EXCEPT ![r] =
          updateCommStats(@, "distribute_sequences_bytes",
                          Len(all_sequences[r]) * SizeofChIPSequence)]
    /\ pc' = [pc EXCEPT ![r] = "broadcast"]
    /\ loc' = [loc EXCEPT ![r] = BroadcastWorkerInit]
    /\ UNCHANGED <<size_, eagerLimit, all_sequences, motifs, chan,
                   bcastLog, bcastSeen, local_motifs, local_results,
                   all_results, runs, mpiError>>

(* broadcastMotifs on the master: the next MPI_Bcast as root *)
BroadcastMasterBcast(r) ==
    /\ pc[r] = "broadcast" /\ isMaster(r)
    /\ SendDone(r)
    /\ loc[r].k <= Len(loc[r].sends)
    /\ bcastLog' = Append(bcastLog, loc[r].sends[loc[r].k])
    /\ bcastSeen' = [bcastSeen EXCEPT ![r] = @ + 1]
    /\ loc' = [loc EXCEPT ![r].k = @ + 1]
    /\ UNCHANGED <<size_, eagerLimit, all_sequences, motifs, pc,
                   chan, local_sequences, local_motifs, local_results,
                   all_results, comm_stats_, runs, mpiError>>

(* broadcastMotifs on the master: received_motifs = motifs, return *)
BroadcastMasterReturn(r) ==
    /\ pc[r] = "broadcast" /\ isMaster(r)
    /\ SendDone(r)
    /\ loc[r].k > Len(loc[r].sends)
    /\ local_motifs' = [local_motifs EXCEPT ![r] = motifs[r]]
    /\ comm_stats_' = [comm_stats_ EXCEPT ![r] =
          updateCommStats(@, "broadcast_motifs_bytes",
                          Len(motifs[r]) * SizeofMotif)]
    /\ pc' = [pc EXCEPT ![r] = "compute"]
    /\ loc' = [loc EXCEPT ![r] = [at |-> "none"]]
    /\ UNCHANGED <<size_, eagerLimit, all_sequences, motifs, chan,
                   bcastLog, bcastSeen, local_sequences, local_results,
                   all_results, runs, mpiError>>

(* broadcastMotifs on a worker: the next MPI_Bcast as non-root *)
BroadcastWorkerBcast(r) ==
    /\ pc[r] = "broadcast" /\ ~isMaster(r)
    /\ loc[r].at # "end"
    /\ bcastSeen[r] < Len(bcastLog)
    /\ LET want == BroadcastWant(loc[r])
           msg  == bcastLog[bcastSeen[r] + 1]
       IN  IF msg.type # want.type \/ msg.count # want.count
           THEN /\ mpiError' = TRUE
                /\ pc' = [pc EXCEPT ![r] = "aborted"]
                /\ loc' = loc
           ELSE /\ loc' = [loc EXCEPT ![r] = BroadcastAfterRecv(@, msg)]
                /\ pc' = IF loc'[r].at = "length_error"
                         THEN [pc EXCEPT ![r] = "failed"] ELSE pc
                /\ UNCHANGED mpiError
    /\ bcastSeen' = [bcastSeen EXCEPT ![r] = @ + 1]
    /\ UNCHANGED <<size_, eagerLimit, all_sequences, motifs, chan,
                   bcastLog, local_sequences, local_motifs, local_results,
                   all_results, comm_stats_, runs>>

(* broadcastMotifs on a worker: return the decoded motifs *)
BroadcastWorkerReturn(r) ==
    /\ pc[r] = "broadcast" /\ ~isMaster(r)
    /\ loc[r].at = "end"
    /\ local_motifs' = [local_motifs EXCEPT ![r] = loc[r].out]
    /\ comm_stats_' = [comm_stats_ EXCEPT ![r] =
          updateCommStats(@, "broadcast_motifs_bytes",
                          Len(motifs[r]) * SizeofMotif)]
    /\ pc' = [pc EXCEPT ![r] = "compute"]
    /\ loc' = [loc EXCEPT ![r] = [at |-> "none"]]
    /\ UNCHANGED <<size_, eagerLimit, all_sequences, motifs, chan,
                   bcastLog, bcastSeen, local_sequences, local_results,
                   all_results, runs, mpiError>>

(* processMotifsParallel over the local slice with the team size the rank   *)
(* was configured with, up to the call of gatherResults                      *)
ProcessMotifsParallel(r) ==
    /\ pc[r] = "compute"
    /\ \E num_threads \in 1 .. MaxThreads :
       \E o \in processMotifsParallelOutcomes(local_sequences[r],
                                              local_motifs[r], num_threads) :
          IF o.outcome = "killed"
          THEN /\ pc' = [pc EXCEPT ![r] = "killed"]
               /\ UNCHANGED <<local_results, loc>>
          ELSE /\ pc' = [pc EXCEPT ![r] = "gather"]
               /\ local_results' = [local_results EXCEPT ![r] = o.results]
               /\ loc' = [loc EXCEPT ![r] =
                     IF isMaster(r) THEN GatherMasterInit(o.results, size_)
                     ELSE GatherWorkerInit(o.results)]
    /\ UNCHANGED <<size_, eagerLimit, all_sequences, motifs, chan,
                   bcastLog, bcastSeen, local_sequences, local_motifs,
                   all_results, comm_stats_, runs, mpiError>>

(* gatherResults on the master: the next MPI_Recv from rank src *)
GatherMasterRecv(r) ==
    /\ pc[r] = "gather" /\ isMaster(r)
    /\ loc[r].at # "end"
    /\ HasMatch(loc[r].src, r, GatherWant(loc[r]).tag)
    /\ LET want == GatherWant(loc[r])
           src  == loc[r].src
           k    == MatchIndex(src, r, want.tag)
           msg  == chan[src][r][k]
       IN  /\ chan' = [chan EXCEPT ![src][r] = RemoveAt(@, k)]
           /\ IF RecvFails(msg, want.type, want.count)
              THEN /\ mpiError' = TRUE
                   /\ pc' = [pc EXCEPT ![r] = "aborted"]
                   /\ loc' = loc
              ELSE /\ loc' = [loc EXCEPT ![r] = GatherAfterRecv(@, msg, size_)]
                   /\ pc' = IF loc'[r].at = "length_error"
                            THEN [pc EXCEPT ![r] = "failed"] ELSE pc
                   /\ UNCHANGED mpiError
    /\ UNCHANGED <<size_, eagerLimit, all_sequences, motifs,
                   bcastLog, bcastSeen, local_sequences, local_motifs,
                   local_results, all_results, comm_stats_, runs>>

(* a faulty variant: the master returns only its own results *)
GatherMasterReturnLocalOnly(r) ==
    /\ pc[r] = "gather" /\ isMaster(r)
    /\ loc[r].at = "end"
    /\ all_results' = [all_results EXCEPT ![r] = local_results[r]]
    /\ comm_stats_' = [comm_stats_ EXCEPT ![r] =
          updateCommStats(@, "gather_results_bytes",
                          Len(local_results[r]) * SizeofMotifResult)]
    /\ pc' = [pc EXCEPT ![r] = "idle"]
    /\ loc' = [loc EXCEPT ![r] = [at |-> "none"]]
    /\ runs' = [runs EXCEPT ![r] = @ + 1]
    /\ UNCHANGED <<size_, eagerLimit, all_sequences, motifs, chan,
                   bcastLog, bcastSeen, local_sequences, local_motifs,
                   local_results, mpiError>>

(* gatherResults on the master returns; processMotifs returns all_results *)
GatherMasterReturn(r) ==
    /\ pc[r] = "gather" /\ isMaster(r)
    /\ loc[r].at = "end"
    /\ all_results' = [all_results EXCEPT ![r] = loc[r].out]
    /\ comm_stats_' = [comm_stats_ EXCEPT ![r] =
          updateCommStats(@, "gather_results_bytes",
                          Len(local_results[r]) * SizeofMotifResult)]
    /\ pc' = [pc EXCEPT ![r] = "idle"]
    /\ loc' = [loc EXCEPT ![r] = [at |-> "none"]]
    /\ runs' = [runs EXCEPT ![r] = @ + 1]
    /\ UNCHANGED <<size_, eagerLimit, all_sequences, motifs, chan,
                   bcastLog, bcastSeen, local_sequences, local_motifs,
                   local_results, mpiError>>

(* gatherResults on a worker: the next MPI_Send to the master *)
GatherWorkerSend(r) ==
    /\ pc[r] = "gather" /\ ~isMaster(r)
    /\ SendDone(r)
    /\ loc[r].k <= Len(loc[r].sends)
    /\ Send(r, 0, loc[r].sends[loc[r].k])
    /\ loc' = [loc EXCEPT ![r].k = @ + 1]
    /\ UNCHANGED <<size_, eagerLimit, all_sequences, motifs, pc,
                   bcastLog, bcastSeen, local_sequences, local_motifs,
                   local_results, all_results, comm_stats_, runs, mpiError>>

(* a faulty variant: a worker returns its own local results *)
GatherWorkerReturnKeepsLocal(r) ==
    /\ pc[r] = "gather" /\ ~isMaster(r)
    /\ SendDone(r)
    /\ loc[r].k > Len(loc[r].sends)
    /\ all_results' = [all_results EXCEPT ![r] = local_results[r]]
    /\ comm_stats_' = [comm_stats_ EXCEPT ![r] =
          updateCommStats(@, "gather_results_bytes",
                          Len(local_results[r]) * SizeofMotifResult)]
    /\ pc' = [pc EXCEPT ![r] = "idle"]
    /\ loc' = [loc EXCEPT ![r] = [at |-> "none"]]
    /\ runs' = [runs EXCEPT ![r] = @ + 1]
    /\ UNCHANGED <<size_, eagerLimit, all_sequences, motifs, chan,
                   bcastLog, bcastSeen, local_sequences, local_motifs,
                   local_results, mpiError>>

(* gatherResults on a worker returns its empty all_results; processMotifs returns *)
GatherWorkerReturn(r) ==
    /\ pc[r] = "gather" /\ ~isMaster(r)
    /\ SendDone(r)
    /\ loc[r].k > Len(loc[r].sends)
    /\ all_results' = [all_results EXCEPT ![r] = <<>>]
    /\ comm_stats_' = [comm_stats_ EXCEPT ![r] =
          updateCommStats(@, "gather_results_bytes",
                          Len(local_results[r]) * SizeofMotifResult)]
    /\ pc' = [pc EXCEPT ![r] = "idle"]
    /\ loc' = [loc EXCEPT ![r] = [at |-> "none"]]
    /\ runs' = [runs EXCEPT ![r] = @ + 1]
    /\ UNCHANGED <<size_, eagerLimit, all_sequences, motifs, chan,
                   bcastLog, bcastSeen, local_sequences, local_motifs,
                   local_results, mpiError>>

DistributeStep(r) ==
    \/ DistributeMasterSend(r)
    \/ DistributeMasterReturn(r)
    \/ DistributeWorkerRecv(r)
    \/ DistributeWorkerReturn(r)

BroadcastStep(r) ==
    \/ BroadcastMasterBcast(r)
    \/ BroadcastMasterReturn(r)
    \/ BroadcastWorkerBcast(r)
    \/ BroadcastWorkerReturn(r)

GatherStep(r) ==
    \/ GatherMasterRecv(r)
    \/ GatherMasterReturn(r)
    \/ GatherWorkerSend(r)
    \/ GatherWorkerReturn(r)

RankStep(r) ==
    \/ ProcessMotifs(r)
    \/ DistributeStep(r)
    \/ BroadcastStep(r)
    \/ ProcessMotifsParallel(r)
    \/ GatherStep(r)

JobNext ==
    (\E r \in Ranks : RankStep(r)) /\ UNCHANGED <<partVars, ompVars, lifeVars, callVars>>
ScatterNext ==
    (\E r \in Ranks : DistributeStep(r)) /\ UNCHANGED <<partVars, ompVars, lifeVars, callVars>>
BroadcastNext ==
    (\E r \in Ranks : BroadcastStep(r)) /\ UNCHANGED <<partVars, ompVars, lifeVars, callVars>>
GatherNext ==
    (\E r \in Ranks : GatherStep(r)) /\ UNCHANGED <<partVars, ompVars, lifeVars, callVars>>

(* every rank is about to call processMotifs, on up to MaxSize ranks *)
JobFailureInit ==
    /\ size_ \in 1 .. MaxSize
    /\ \E n \in 0 .. MaxSeqs : all_sequences = LoadedSequences(n)
    /\ \E k \in 0 .. MaxJobLoad - size_ : motifs = LoadedMotifs(k)
    /\ pc = [r \in Ranks |-> "idle"]
    /\ loc = [r \in Ranks |-> [at |-> "none"]]
    /\ local_sequences = [r \in Ranks |-> <<>>]
    /\ local_motifs = [r \in Ranks |-> <<>>]
    /\ local_results = [r \in Ranks |-> <<>>]
    /\ CommInit

(* every rank is about to call processMotifs, on up to MaxSize ranks; the    *)
(* coordinator's motif file holds the motifs of the pool after the first     *)
JobResultsInit ==
    /\ size_ \in 1 .. MaxSize
    /\ \E n \in 0 .. MaxSeqs : all_sequences = LoadedSequences(n)
    /\ \E k \in 0 .. Min(MaxJobLoad + 1 - size_, Len(MotifPool) - 1) :
          motifs = [r \in Ranks |-> IF r % 2 = 1 THEN OtherMotifs
                                   ELSE SubSeq(MotifPool, 2, k + 1)]
    /\ pc = [r \in Ranks |-> "idle"]
    /\ loc = [r \in Ranks |-> [at |-> "none"]]
    /\ local_sequences = [r \in Ranks |-> <<>>]
    /\ local_motifs = [r \in Ranks |-> <<>>]
    /\ local_results = [r \in Ranks |-> <<>>]
    /\ CommInit

(* ParallelProcessor::processMotifs on rank r ends in loadInputFiles, which  *)
(* throws when a file cannot be parsed: the rank makes no MPI call           *)
LoadInputFilesThrows(r) ==
    /\ pc[r] = "idle"
    /\ runs[r] < MaxRuns
    /\ pc' = [pc EXCEPT ![r] = "failed"]
    /\ UNCHANGED <<size_, eagerLimit, all_sequences, motifs, loc, chan,
                   bcastLog, bcastSeen, local_sequences, local_motifs,
                   local_results, all_results, comm_stats_, runs, mpiError>>

JobFailureNext ==
    /\ \E r \in Ranks : RankStep(r) \/ LoadInputFilesThrows(r)
    /\ UNCHANGED <<partVars, ompVars, lifeVars, callVars>>

(* the three operations, each from its own entry *)
CollectivesNext == ScatterNext \/ BroadcastNext \/ GatherNext

-----------------------------------------------------------------------------
(* Partition driver: calculateWorkDistribution for rank 0, 1, ... of P *)

PartitionInit ==
    /\ total_sequences \in 0 .. MaxN
    /\ total_processes \in 1 .. MaxP
    /\ parts = <<>>

CalculateNextRank ==
    /\ Len(parts) < total_processes
    /\ parts' = Append(parts, calculateWorkDistribution(total_sequences,
                                                        Len(parts),
                                                        total_processes))
    /\ UNCHANGED <<total_sequences, total_processes>>

PartitionNext == CalculateNextRank /\ UNCHANGED <<mpiVars, ompVars, lifeVars, callVars>>

-----------------------------------------------------------------------------
(* Direct calls of calculateWorkDistribution by client code, any arguments *)

NoPartition == [start |-> 0, count |-> 0]
NoPartitionCall ==
    [N |-> 0, rank |-> 0, P |-> 1, outcome |-> "none", result |-> NoPartition]

(* how a call of calculateWorkDistribution ends.  With total_processes = 0   *)
(* both size_t divisions have a zero divisor, which is undefined: the        *)
(* division instruction traps and the process dies, or it yields quotient 0  *)
(* and the remainder is computed from it as N - 0 * 0 = N                    *)
calculateWorkDistributionOutcomes(N, process_rank, P) ==
    IF P = 0
    THEN { [outcome |-> "trapped", result |-> NoPartition],
           [outcome |-> "returned",
            result |-> [start |-> process_rank * 0 + Min(process_rank, N),
                        count |-> 0 + (IF process_rank < ToInt(N) THEN 1
                                       ELSE 0)]] }
    ELSE { [outcome |-> "returned",
            result |-> calculateWorkDistribution(N, process_rank, P)] }

PartitionCallInit == partition_call = NoPartitionCall

CalculateWorkDistributionCall ==
    \E N \in 0 .. MaxN, process_rank \in 0 .. MaxCallP - 1, P \in 0 .. MaxCallP :
        \E o \in calculateWorkDistributionOutcomes(N, process_rank, P) :
            partition_call' = [N |-> N, rank |-> process_rank, P |-> P,
                               outcome |-> o.outcome, result |-> o.result]

PartitionCallNext ==
    /\ CalculateWorkDistributionCall
    /\ UNCHANGED <<partVars, mpiVars, ompVars, lifeVars, codes_call,
                   kernel_call, main_call, parser_call>>

-----------------------------------------------------------------------------
(* Direct calls of IUPACCodes::matches, isValidIUPACCode and getNucleotides  *)
(* on one pair of characters                                                 *)

(* the characters given to the calls: the letters in both cases, and         *)
(* representatives of the other characters ("NUL" is the zero character and  *)
(* "e'" a character above 127)                                               *)
CharPool ==
    {LowerToUpper[c] : c \in DOMAIN LowerToUpper} \cup DOMAIN LowerToUpper
        \cup {"0", "1", "@", "-", " ", "*", "NUL", "e'"}

CodesCall(nucleotide, code, function, matched, valid, nucleotides) ==
    [nucleotide |-> nucleotide, code |-> code, function |-> function,
     matched |-> matched, valid |-> valid, nucleotides |-> nucleotides]

CodesCallInit ==
    \E nucleotide \in CharPool, code \in CharPool :
        codes_call = CodesCall(nucleotide, code, "none", FALSE, FALSE, <<>>)

MatchesCall ==
    codes_call' =
          [codes_call EXCEPT !.function = "matches",
                             !.matched = matches(codes_call.nucleotide,
                                                 codes_call.code)]

IsValidIUPACCodeCall ==
    codes_call' =
          [codes_call EXCEPT !.function = "isValidIUPACCode",
                             !.valid = isValidIUPACCode(codes_call.code)]

GetNucleotidesCall ==
    codes_call' =
          [codes_call EXCEPT !.function = "getNucleotides",
                             !.nucleotides = getNucleotides(codes_call.code)]

CodesNext ==
    /\ MatchesCall \/ IsValidIUPACCodeCall \/ GetNucleotidesCall
    /\ UNCHANGED <<partVars, mpiVars, ompVars, lifeVars, partition_call,
                   kernel_call, main_call, parser_call>>

-----------------------------------------------------------------------------
(* MotifFinder::processSingleMotif, the per-motif step of the sequential batch *)
processSingleMotif(seqs, motif) ==
    LET scanned == ScanSequences(seqs, motif, 1,
                       [motif_pattern |-> motif.pattern, match_count |-> 0,
                        frequency |-> Zero, matches |-> <<>>])
    IN  [scanned EXCEPT
            !.frequency = calculateFrequency(scanned.match_count, Len(seqs))]

(* a faulty variant: the results come out in reverse motif order *)
findMotifsReversed(seqs, ms) ==
    [i \in DOMAIN ms |-> processSingleMotif(seqs, ms[Len(ms) + 1 - i])]

(* MotifFinder::findMotifs, the sequential batch *)
findMotifs(seqs, ms) == [i \in DOMAIN ms |-> processSingleMotif(seqs, ms[i])]

-----------------------------------------------------------------------------
(* Direct calls of the matching kernel: IUPACCodes::matchesMotif and         *)
(* findMotifMatches, MotifFinder::findMotifInSequence, findSingleMotif and   *)
(* findMotifs, on one MotifFinder and one pair of input lists                *)

(* the strings over an alphabet of at most n characters *)
Strings(alphabet, n) == UNION {[1 .. k -> alphabet] : k \in 0 .. n}
(* the lists of at most n elements of a set *)
Lists(elements, n) == UNION {[1 .. k -> elements] : k \in 0 .. n}

(* ChIPSequence(seq_id, seq) and Motif(pat, s1, s2, s3) *)
AsSequence(seq) == [id |-> <<"s">>, sequence |-> seq, metadata |-> <<>>]
AsMotif(pat) == [pattern |-> pat, score1 |-> 0, score2 |-> 0, score3 |-> 0]

(* a string repeated n times *)
Repeat(str, n) == [k \in 1 .. n * Len(str) |-> str[((k - 1) % Len(str)) + 1]]

(* the sequences and the motifs 0 and 3 of the MotifFinderTest fixture *)
ScenarioSequences ==
    << AsSequence(Repeat(<<"A", "T", "G", "C">>, 10)),
       AsSequence(Repeat(<<"T">>, 40)),
       AsSequence(Repeat(<<"G">>, 40)),
       AsSequence(Repeat(<<"C">>, 40)),
       AsSequence(Repeat(<<"A", "T", "G", "C">>, 10)) >>
ScenarioMotifs ==
    << AsMotif(<<"A", "T", "G", "C", "A", "T", "G", "C">>),
       AsMotif(<<"A", "T", "R", "C", "A", "T", "G", "C">>) >>

(* sequences and patterns the lists of the kernel inputs are made of *)
CorpusPool == { <<"A", "T", "A", "T">>, <<"g", "A", "t">>, <<"T">> }
PatternPool == { <<"A", "T">>, <<"R", "W">>, <<"A", "x">> }

(* a size_t value is written as the integer congruent to it modulo 2^64 of   *)
(* least magnitude: 0, 1, 2, ... are themselves and -k is 2^64 - k.  Sums    *)
(* of such values are then plain sums, and a < b in size_t is:               *)
SizeLess(a, b) == IF (a < 0) = (b < 0) THEN a < b ELSE b < 0

(* how IUPACCodes::matchesMotif ends for any size_t start_pos.  When         *)
(* start_pos + motif.length() wraps around, the length check passes and      *)
(* sequence[start_pos + i] is read outside the string for the first indices: *)
(* that read is undefined, it faults or yields whatever character lies       *)
(* there, which may or may not match a valid code                            *)
matchesMotifOutcomes(sequence, motif, start_pos) ==
    IF SizeLess(Len(sequence), start_pos + Len(motif))
    THEN { [outcome |-> "returned", value |-> FALSE, outside |-> FALSE] }
    ELSE IF \A i \in 0 .. Len(motif) - 1 :
                ~SizeLess(start_pos + i, 0) /\ SizeLess(start_pos + i, Len(sequence))
    THEN { [outcome |-> "returned",
            value |-> matchesMotif(sequence, motif, start_pos),
            outside |-> FALSE] }
    ELSE { [outcome |-> "faulted", value |-> FALSE, outside |-> TRUE],
           [outcome |-> "returned", value |-> FALSE, outside |-> TRUE] }
         \cup
         { [outcome |-> "returned", value |-> TRUE, outside |-> TRUE] :
           x \in { y \in {TRUE} :
                     \A i \in 0 .. Len(motif) - 1 :
                        IF start_pos + i < 0
                        THEN isValidIUPACCode(motif[i + 1])
                        ELSE matches(sequence[start_pos + i + 1], motif[i + 1]) } }

NoMotifResult ==
    [motif_pattern |-> <<>>, match_count |-> 0, frequency |-> Zero,
     matches |-> <<>>]

(* the arguments of the calls: the two lists, the indices of the sequence    *)
(* and of the motif given to the calls that take one (0 when the list is     *)
(* empty) and a start position                                               *)
KernelArgs(seqs, pats, positions) ==
    { [sequences |-> [k \in DOMAIN seqs |-> AsSequence(seqs[k])],
       motifs |-> [k \in DOMAIN pats |-> AsMotif(pats[k])],
       seq_i |-> i, motif_i |-> j, start_pos |-> start_pos] :
      i \in IF seqs = <<>> THEN {0} ELSE DOMAIN seqs,
      j \in IF pats = <<>> THEN {0} ELSE DOMAIN pats,
      start_pos \in positions }

(* every short sequence with every short pattern at every position, in range *)
(* or not; lists of sequences with lists of motifs, the last sequence and    *)
(* any motif of the list in hand; and the test fixture                       *)
KernelInputs ==
    UNION { KernelArgs(<<seq>>, <<pat>>, (-MaxTop) .. MaxSymbols + 1) :
            seq \in Strings({"A", "g"}, MaxSymbols),
            pat \in Strings({"A", "R"}, MaxPatternLen) }
    \cup UNION { { a \in KernelArgs(seqs, pats, {0}) : a.seq_i = Len(seqs) } :
                 seqs \in Lists(CorpusPool, MaxCorpus),
                 pats \in Lists(PatternPool, MaxKernelMotifs) }
    \cup KernelArgs([k \in DOMAIN ScenarioSequences |->
                        ScenarioSequences[k].sequence],
                    [k \in DOMAIN ScenarioMotifs |-> ScenarioMotifs[k].pattern],
                    {0})

(* a MotifFinder with empty performance_stats_ and the arguments in hand *)
KernelInit ==
    \E args \in KernelInputs :
        kernel_call = [args |-> args, performance_stats_ |-> {},
                       function |-> "none", returned |-> <<>>]

(* the latest call, what it returned and the map it left in the engine *)
KernelCall(function, returned, performance_stats_) ==
    [kernel_call EXCEPT !.function = function, !.returned = returned,
                        !.performance_stats_ = performance_stats_]

(* MotifFinder::updatePerformanceStats: the entry of the operation is set to *)
(* the elapsed time; the map is written as the set of its keys               *)
updatePerformanceStats(performance_stats_, operation) ==
    performance_stats_ \cup {operation}

(* a faulty variant: an engine that has timed a findSingleMotif call already *)
(* skips the scan and returns the result it starts from                      *)
MotifFinder_findSingleMotifOnce(performance_stats_, sequences, motif) ==
    [result |-> IF "find_single_motif" \in performance_stats_
                THEN [motif_pattern |-> motif.pattern, match_count |-> 0,
                      frequency |-> Zero, matches |-> <<>>]
                ELSE findSingleMotif(sequences, motif),
     performance_stats_ |->
         updatePerformanceStats(performance_stats_, "find_single_motif")]

(* MotifFinder::findSingleMotif as a member call: the engine it is called on *)
(* goes in and comes out.  The result is built in a local MotifResult from   *)
(* the two arguments and the code table; performance_stats_ is written once, *)
(* after the result is complete, and is never read                           *)
MotifFinder_findSingleMotif(performance_stats_, sequences, motif) ==
    [result |-> findSingleMotif(sequences, motif),
     performance_stats_ |->
         updatePerformanceStats(performance_stats_, "find_single_motif")]

MatchesMotifCall ==
    LET args == kernel_call.args
    IN  /\ args.seq_i > 0 /\ args.motif_i > 0
        /\ \E o \in matchesMotifOutcomes(args.sequences[args.seq_i].sequence,
                                         args.motifs[args.motif_i].pattern,
                                         args.start_pos) :
              kernel_call' = KernelCall("matchesMotif", o,
                                        kernel_call.performance_stats_)

FindMotifMatchesCall ==
    LET args == kernel_call.args
    IN  /\ args.seq_i > 0 /\ args.motif_i > 0
        /\ kernel_call' =
              KernelCall("findMotifMatches",
                         findMotifMatches(args.sequences[args.seq_i].sequence,
                                          args.motifs[args.motif_i].pattern),
                         kernel_call.performance_stats_)

FindMotifInSequenceCall ==
    LET args == kernel_call.args
    IN  /\ args.seq_i > 0 /\ args.motif_i > 0
        /\ kernel_call' =
              KernelCall("findMotifInSequence",
                         findMotifInSequence(args.sequences[args.seq_i],
                                             args.motifs[args.motif_i],
                                             args.seq_i - 1),
                         kernel_call.performance_stats_)

FindSingleMotifCall ==
    LET args == kernel_call.args
    IN  /\ args.motif_i > 0
        /\ \E call \in { MotifFinder_findSingleMotif(
                             kernel_call.performance_stats_, args.sequences,
                             args.motifs[args.motif_i]) } :
              kernel_call' = KernelCall("findSingleMotif", call.result,
                                        call.performance_stats_)

(* the keys findMotifs and findMotifsParallel leave: their own, and the key  *)
(* of processSingleMotif when there was a motif to process                   *)
BatchKeys(performance_stats_, ms, operation) ==
    updatePerformanceStats(
        IF ms = <<>> THEN performance_stats_
        ELSE updatePerformanceStats(performance_stats_, "process_single_motif"),
        operation)

FindMotifsCall ==
    LET args == kernel_call.args
    IN  kernel_call' =
           KernelCall("findMotifs", findMotifs(args.sequences, args.motifs),
                      BatchKeys(kernel_call.performance_stats_, args.motifs,
                                "find_motifs_total"))

(* MotifFinder::findMotifsParallel: the loop of findMotifs, one motif after  *)
(* the other, under its own key                                              *)
FindMotifsParallelCall ==
    LET args == kernel_call.args
    IN  kernel_call' =
           KernelCall("findMotifsParallel",
                      findMotifs(args.sequences, args.motifs),
                      BatchKeys(kernel_call.performance_stats_, args.motifs,
                                "find_motifs_parallel"))

(* MotifFinder::resetPerformanceStats *)
ResetPerformanceStatsCall ==
    kernel_call' = KernelCall("resetPerformanceStats", <<>>, {})

KernelNext ==
    /\ \/ MatchesMotifCall \/ FindMotifMatchesCall \/ FindMotifInSequenceCall
       \/ FindSingleMotifCall \/ FindMotifsCall \/ FindMotifsParallelCall
       \/ ResetPerformanceStatsCall
    /\ UNCHANGED <<partVars, mpiVars, ompVars, lifeVars, partition_call,
                   codes_call, main_call, parser_call>>

(* One MotifFinder called again and again by client code that changes the   *)
(* arguments between the calls and keeps results to compare them             *)

(* the client's corpus and motif list; the calls take the whole corpus or    *)
(* all of it but the last sequence, and any motif of the list                *)
FinderInputs ==
    { [corpus |-> [k \in DOMAIN seqs |-> AsSequence(seqs[k])],
       motifs |-> [k \in DOMAIN pats |-> AsMotif(pats[k])]] :
      seqs \in { l \in [1 .. MaxCorpus -> CorpusPool] :
                    \A i, j \in DOMAIN l : l[i] = l[j] => i = j },
      pats \in { l \in [1 .. MaxKernelMotifs -> PatternPool] :
                    \A i, j \in DOMAIN l : l[i] = l[j] => i = j } }

FinderInit ==
    \E input \in FinderInputs :
        kernel_call = [args |-> [sequences |-> input.corpus,
                                 motifs |-> input.motifs,
                                 seq_i |-> 1, motif_i |-> 1, start_pos |-> 0],
                       corpus |-> input.corpus,
                       performance_stats_ |-> {},
                       function |-> "none", returned |-> <<>>,
                       kept |-> <<>>]

(* the client takes the result findSingleMotif has just returned and keeps   *)
(* it with the arguments it gave; a result seen after that is the result of  *)
(* a later call                                                              *)
ClientKeepsResult ==
    /\ kernel_call.function = "findSingleMotif"
    /\ kernel_call' =
          [kernel_call EXCEPT
              !.kept = << [sequences |-> kernel_call.args.sequences,
                           motif |-> kernel_call.args.motifs[
                                         kernel_call.args.motif_i],
                           returned |-> kernel_call.returned] >>,
              !.function = "none", !.returned = <<>>]

(* the client picks the arguments of its next call *)
ClientChangesArguments ==
    \E n \in {Len(kernel_call.corpus) - 1, Len(kernel_call.corpus)},
       j \in DOMAIN kernel_call.args.motifs :
        /\ <<n, j>> # <<Len(kernel_call.args.sequences),
                        kernel_call.args.motif_i>>
        /\ kernel_call' =
              [kernel_call EXCEPT
                  !.args.sequences = SubSeq(kernel_call.corpus, 1, n),
                  !.args.motif_i = j,
                  !.function = "none", !.returned = <<>>]

FinderNext ==
    /\ \/ FindSingleMotifCall \/ FindMotifsCall \/ FindMotifsParallelCall
       \/ ResetPerformanceStatsCall
       \/ ClientKeepsResult \/ ClientChangesArguments
    /\ UNCHANGED <<partVars, mpiVars, ompVars, lifeVars, partition_call,
                   codes_call, main_call, parser_call>>

-----------------------------------------------------------------------------
(* ParallelProcessor::processMotifsParallel, thread by thread *)

Threads == 1 .. omp_threads

BatchInit ==
    /\ omp_threads \in 1 .. MaxThreads
    /\ \E n \in 0 .. MaxBatchSeqs : batch_sequences = SubSeq(SeqPool, 1, n)
    /\ \E k \in 0 .. MaxBatchMotifs : batch_motifs = SubSeq(MotifPool, 1, k)
    /\ batch = "idle"
    /\ next_iteration = 0
    /\ thread = [t \in Threads |-> "none"]
    /\ thread_i = [t \in Threads |-> 0]
    /\ thread_result = [t \in Threads |-> EmptyResult]
    /\ thread_results = [t \in Threads |-> <<>>]
    /\ batch_results = <<>>
    /\ critical_owner = 0
    /\ stats_writers = {}
    /\ stats_raced = {}
    /\ finder_stats = "empty"
    /\ processor_stats = {}

(* entry: results is created and the team starts the parallel region *)
EnterParallelRegion ==
    /\ batch = "idle"
    /\ batch' = "region"
    /\ batch_results' = <<>>
    /\ next_iteration' = 0
    /\ thread' = [t \in Threads |-> "loop"]
    /\ thread_results' = [t \in Threads |-> <<>>]
    /\ UNCHANGED <<omp_threads, batch_sequences, batch_motifs, thread_i,
                   thread_result, critical_owner, stats_writers, stats_raced,
                   finder_stats, processor_stats>>

(* omp for schedule(dynamic): the thread asks for the next index, or finds   *)
(* the loop exhausted and goes to the barrier that ends the loop             *)
NextIteration(t) ==
    /\ batch = "region" /\ thread[t] = "loop"
    /\ IF next_iteration < Len(batch_motifs)
       THEN /\ thread_i' = [thread_i EXCEPT ![t] = next_iteration]
            /\ next_iteration' = next_iteration + 1
            /\ thread' = [thread EXCEPT ![t] = "find"]
       ELSE /\ thread' = [thread EXCEPT ![t] = "barrier"]
            /\ UNCHANGED <<thread_i, next_iteration>>
    /\ UNCHANGED <<omp_threads, batch_sequences, batch_motifs, batch, thread_result,
                   thread_results, batch_results, critical_owner, stats_writers,
                   stats_raced, finder_stats, processor_stats>>

(* findSingleMotif up to calculateFrequency: reads the arguments only *)
FindSingleMotif(t) ==
    /\ batch = "region" /\ thread[t] = "find"
    /\ thread_result' = [thread_result EXCEPT ![t] =
          findSingleMotif(batch_sequences, batch_motifs[thread_i[t] + 1])]
    /\ thread' = [thread EXCEPT ![t] = "stats"]
    /\ UNCHANGED <<omp_threads, batch_sequences, batch_motifs, batch, next_iteration,
                   thread_i, thread_results, batch_results, critical_owner,
                   stats_writers, stats_raced, finder_stats, processor_stats>>

(* findSingleMotif calls updatePerformanceStats: the thread starts to write  *)
(* performance_stats_ of the MotifFinder all threads share, with no lock     *)
StatsWriteBegin(t) ==
    /\ batch = "region" /\ thread[t] = "stats"
    /\ stats_writers' = stats_writers \cup {t}
    /\ stats_raced' = IF stats_writers # {} THEN stats_raced \cup stats_writers \cup {t}
                      ELSE stats_raced
    /\ thread' = [thread EXCEPT ![t] = "writing"]
    /\ UNCHANGED <<omp_threads, batch_sequences, batch_motifs, batch, next_iteration,
                   thread_i, thread_result, thread_results, batch_results,
                   critical_owner, finder_stats, processor_stats>>

(* the write ends.  A write that overlapped another one is a data race: the  *)
(* map may come out well-formed or corrupt                                   *)
StatsWriteEnd(t) ==
    /\ batch = "region" /\ thread[t] = "writing"
    /\ stats_writers' = stats_writers \ {t}
    /\ stats_raced' = stats_raced \ {t}
    /\ \/ finder_stats' = IF finder_stats = "corrupt" THEN "corrupt" ELSE "written"
       \/ t \in stats_raced /\ finder_stats' = "corrupt"
    /\ thread' = [thread EXCEPT ![t] = "push"]
    /\ UNCHANGED <<omp_threads, batch_sequences, batch_motifs, batch, next_iteration,
                   thread_i, thread_result, thread_results, batch_results,
                   critical_owner, processor_stats>>

(* the other outcome of a racing write: the process dies in the map's code   *)
StatsWriteCrash(t) ==
    /\ batch = "region" /\ thread[t] = "writing"
    /\ t \in stats_raced
    /\ batch' = "crashed"
    /\ UNCHANGED <<omp_threads, batch_sequences, batch_motifs, next_iteration, thread,
                   thread_i, thread_result, thread_results, batch_results,
                   critical_owner, stats_writers, stats_raced, finder_stats,
                   processor_stats>>

(* a faulty variant: the result is put at the front of the private list *)
PushLocalResultFront(t) ==
    /\ batch = "region" /\ thread[t] = "push"
    /\ thread_results' = [thread_results EXCEPT ![t] = <<thread_result[t]>> \o @]
    /\ thread' = [thread EXCEPT ![t] = "loop"]
    /\ UNCHANGED <<omp_threads, batch_sequences, batch_motifs, batch, next_iteration,
                   thread_i, thread_result, batch_results, critical_owner,
                   stats_writers, stats_raced, finder_stats, processor_stats>>

(* local_results.push_back(result) *)
PushLocalResult(t) ==
    /\ batch = "region" /\ thread[t] = "push"
    /\ thread_results' = [thread_results EXCEPT ![t] = Append(@, thread_result[t])]
    /\ thread' = [thread EXCEPT ![t] = "loop"]
    /\ UNCHANGED <<omp_threads, batch_sequences, batch_motifs, batch, next_iteration,
                   thread_i, thread_result, batch_results, critical_owner,
                   stats_writers, stats_raced, finder_stats, processor_stats>>

(* the implicit barrier at the end of the omp for *)
LoopBarrier(t) ==
    /\ batch = "region" /\ thread[t] = "barrier"
    /\ \A u \in Threads : thread[u] \in {"barrier", "waiting", "critical", "joined"}
    /\ thread' = [thread EXCEPT ![t] = "waiting"]
    /\ UNCHANGED <<omp_threads, batch_sequences, batch_motifs, batch, next_iteration,
                   thread_i, thread_result, thread_results, batch_results,
                   critical_owner, stats_writers, stats_raced, finder_stats,
                   processor_stats>>

(* omp critical: entry *)
CriticalEnter(t) ==
    /\ batch = "region" /\ thread[t] = "waiting"
    /\ critical_owner = 0
    /\ critical_owner' = t
    /\ thread' = [thread EXCEPT ![t] = "critical"]
    /\ UNCHANGED <<omp_threads, batch_sequences, batch_motifs, batch, next_iteration,
                   thread_i, thread_result, thread_results, batch_results,
                   stats_writers, stats_raced, finder_stats, processor_stats>>

(* a faulty variant: the thread assigns its list instead of appending it *)
CriticalInsertAssigns(t) ==
    /\ batch = "region" /\ thread[t] = "critical"
    /\ batch_results' = thread_results[t]
    /\ critical_owner' = 0
    /\ thread' = [thread EXCEPT ![t] = "joined"]
    /\ UNCHANGED <<omp_threads, batch_sequences, batch_motifs, batch, next_iteration,
                   thread_i, thread_result, thread_results, stats_writers,
                   stats_raced, finder_stats, processor_stats>>

(* results.insert(results.end(), local_results...) and the end of the section *)
CriticalInsert(t) ==
    /\ batch = "region" /\ thread[t] = "critical"
    /\ batch_results' = batch_results \o thread_results[t]
    /\ critical_owner' = 0
    /\ thread' = [thread EXCEPT ![t] = "joined"]
    /\ UNCHANGED <<omp_threads, batch_sequences, batch_motifs, batch, next_iteration,
                   thread_i, thread_result, thread_results, stats_writers,
                   stats_raced, finder_stats, processor_stats>>

(* the region ends; the calling thread records the time and returns results *)
LeaveParallelRegion ==
    /\ batch = "region"
    /\ \A t \in Threads : thread[t] = "joined"
    /\ processor_stats' = processor_stats \cup {"parallel_processing_time"}
    /\ batch' = "returned"
    /\ UNCHANGED <<omp_threads, batch_sequences, batch_motifs, next_iteration, thread,
                   thread_i, thread_result, thread_results, batch_results,
                   critical_owner, stats_writers, stats_raced, finder_stats>>

ThreadStep(t) ==
    \/ NextIteration(t)
    \/ FindSingleMotif(t)
    \/ StatsWriteBegin(t)
    \/ StatsWriteEnd(t)
    \/ StatsWriteCrash(t)
    \/ PushLocalResult(t)
    \/ LoopBarrier(t)
    \/ CriticalEnter(t)
    \/ CriticalInsert(t)

BatchNext ==
    /\ \/ EnterParallelRegion
       \/ \E t \in Threads : ThreadStep(t)
       \/ LeaveParallelRegion
    /\ UNCHANGED <<partVars, mpiVars, lifeVars, callVars>>

-----------------------------------------------------------------------------
(* The counts and lengths that precede the data of the three operations, for *)
(* containers and strings of any size                                        *)

(* a size_t value high * 2^31 + low, with low below 2^31 *)
Size(high, low) == [high |-> high, low |-> low]
SizePool == {Size(high, low) : high \in 0 .. MaxHigh, low \in {0, 1, 5, INT_MAX}}

(* int x = size: the low 32 bits of the value, read as a signed integer *)
SizeToInt(size) == IF size.high % 2 = 0 THEN size.low ELSE INT_MIN + size.low

(* the counts and lengths on the wire: the operation, the variable, its C    *)
(* type on both sides, the MPI datatype of the send and of the receive,      *)
(* whether as many MPI_CHAR follow in the next message, and what the         *)
(* receiver does with the value first: resize a string to it, construct a    *)
(* string of it, reserve a vector of it, or bound a loop by it               *)
Prefix(operation, variable, ctype, send_type, recv_type, length, use) ==
    [operation |-> operation, variable |-> variable, ctype |-> ctype,
     send_type |-> send_type, recv_type |-> recv_type, length |-> length,
     use |-> use]
Prefixes ==
    { Prefix("distributeSequences", "total_sequences", "size_t",
             "MPI_UNSIGNED_LONG", "MPI_UNSIGNED_LONG", FALSE, "none"),
      Prefix("distributeSequences", "count", "size_t",
             "MPI_UNSIGNED_LONG", "MPI_UNSIGNED_LONG", FALSE, "reserve"),
      Prefix("distributeSequences", "id_len", "int", "MPI_INT", "MPI_INT",
             TRUE, "resize"),
      Prefix("distributeSequences", "seq_len", "int", "MPI_INT", "MPI_INT",
             TRUE, "resize"),
      Prefix("distributeSequences", "meta_count", "int", "MPI_INT", "MPI_INT",
             FALSE, "reserve"),
      Prefix("distributeSequences", "meta_len", "int", "MPI_INT", "MPI_INT",
             TRUE, "construct"),
      Prefix("broadcastMotifs", "motif_count", "int", "MPI_INT", "MPI_INT",
             FALSE, "reserve"),
      Prefix("broadcastMotifs", "pattern_len", "int", "MPI_INT", "MPI_INT",
             TRUE, "resize"),
      Prefix("gatherResults", "result_count", "int", "MPI_INT", "MPI_INT",
             FALSE, "loop"),
      Prefix("gatherResults", "pattern_len", "int", "MPI_INT", "MPI_INT",
             TRUE, "resize") }

(* the sender holds a container or string of this size *)
PrefixInit ==
    \E prefix \in Prefixes, size \in SizePool :
        codes_call = [prefix |-> prefix, size |-> size, sender |-> "send",
                      receiver |-> "waiting", sent |-> 0, decoded |-> 0,
                      payload |-> 0]

(* the sender stores the size in the variable and sends the variable *)
SendPrefix ==
    /\ codes_call.sender = "send"
    /\ codes_call' =
          [codes_call EXCEPT
              !.sent = IF codes_call.prefix.ctype = "int"
                       THEN SizeToInt(codes_call.size) ELSE codes_call.size,
              !.sender = IF codes_call.prefix.length THEN "payload" ELSE "done",
              !.receiver = "recv"]

(* the receiver receives into a variable of the same C type and uses it: a   *)
(* negative int makes resize, the string constructor and reserve throw       *)
(* std::length_error, and a loop run no iteration                            *)
RecvPrefix ==
    /\ codes_call.receiver = "recv"
    /\ codes_call' =
          [codes_call EXCEPT
              !.decoded = codes_call.sent,
              !.receiver =
                 IF codes_call.prefix.send_type # codes_call.prefix.recv_type
                 THEN "mpi_error"
                 ELSE IF codes_call.prefix.ctype # "int" THEN "done"
                 ELSE IF codes_call.prefix.use \in {"resize", "construct"}
                 THEN (IF ResizeThrows(codes_call.sent) THEN "length_error"
                       ELSE "done")
                 ELSE IF codes_call.prefix.use = "reserve"
                 THEN (IF ReserveThrows(codes_call.sent) THEN "length_error"
                       ELSE "done")
                 ELSE "done"]

(* the sender sends as many MPI_CHAR as the length variable says; a negative *)
(* count is an error of MPI_Send, on which the job is aborted                *)
SendPayload ==
    /\ codes_call.sender = "payload"
    /\ codes_call' =
          IF codes_call.sent < 0 THEN [codes_call EXCEPT !.sender = "mpi_error"]
          ELSE [codes_call EXCEPT !.payload = codes_call.sent,
                                  !.sender = "done"]

PrefixNext ==
    /\ SendPrefix \/ RecvPrefix \/ SendPayload
    /\ UNCHANGED <<partVars, mpiVars, ompVars, lifeVars, partition_call,
                   kernel_call, main_call, parser_call>>

-----------------------------------------------------------------------------
(* MotifFinder::findMotifsAsync and the Tasks it returns: the caller asks a  *)
(* Task ready() and get(), moves it into another Task, and lets the Tasks go *)
(* out of scope                                                              *)

(* a Task: whether it exists, and its handle, 0 when null and otherwise the  *)
(* number of the coroutine frame it refers to                                *)
NoTask == [life |-> "none", handle |-> 0]
(* a coroutine frame: "none" before its call, "suspended" while it is kept,  *)
(* "released" once freed, and the number of times it was released            *)
NoFrame == [state |-> "none", releases |-> 0]

Tasks == 1 .. MaxTasks

(* no call yet: no coroutine frame, no Task; heap is the state of the        *)
(* allocator's bookkeeping, "sound" until freed memory has been written or   *)
(* released a second time                                                    *)
AsyncInit ==
    \E seqs \in Lists(CorpusPool, MaxCorpus), pats \in Lists(PatternPool, MaxKernelMotifs) :
        kernel_call = [sequences |-> [k \in DOMAIN seqs |-> AsSequence(seqs[k])],
                       motifs |-> [k \in DOMAIN pats |-> AsMotif(pats[k])],
                       tasks |-> [t \in Tasks |-> NoTask],
                       frames |-> [f \in Tasks |-> NoFrame],
                       batch_done |-> FALSE,
                       ready |-> "unasked",
                       got |-> [asked |-> FALSE, intact |-> TRUE, value |-> <<>>],
                       results |-> "none", heap |-> "sound",
                       process |-> "running"]

(* the state of the frame a handle refers to *)
FrameState(handle) ==
    IF handle = 0 THEN "null" ELSE kernel_call.frames[handle].state

(* the call, which makes Task t.  The frame is allocated, get_return_object  *)
(* makes the Task from the handle, initial_suspend does not suspend, so the  *)
(* body runs findMotifs and return_value stores the list in the promise;     *)
(* final_suspend does not suspend either, so the coroutine ends by           *)
(* destroying the promise and releasing the frame, and only then does the    *)
(* caller get the Task.  The call allocates and releases the frame and the   *)
(* lists of the batch: on a heap an earlier step has damaged the allocator   *)
(* may end the process inside the call (SIGABRT)                             *)
FindMotifsAsyncCall(t) ==
    /\ kernel_call.process = "running"
    /\ kernel_call.tasks[t].life = "none"
    /\ \A u \in Tasks : u < t => kernel_call.tasks[u].life # "none"
    /\ \/ \E f \in Tasks :
             /\ kernel_call.frames[f].state = "none"
             /\ \A g \in Tasks : g < f => kernel_call.frames[g].state # "none"
             /\ kernel_call' =
                   [kernel_call EXCEPT
                       !.tasks[t] = [life |-> "held", handle |-> f],
                       !.frames[f] = [state |-> "released", releases |-> 1],
                       !.batch_done = TRUE]
       \/ /\ kernel_call.heap = "damaged"
          /\ kernel_call' = [kernel_call EXCEPT !.process = "faulted"]

(* handle.done() reads the frame: of a frame suspended at its end it is      *)
(* true; of a released frame, or through a null handle, the read is          *)
(* undefined, it yields either answer or faults                              *)
doneOutcomes(frame) ==
    IF frame = "suspended" THEN {"true"} ELSE {"true", "false", "faulted"}

(* Task::ready *)
TaskReady(t) ==
    /\ kernel_call.tasks[t].life = "held" /\ kernel_call.process = "running"
    /\ kernel_call.ready = "unasked"
    /\ \E o \in doneOutcomes(FrameState(kernel_call.tasks[t].handle)) :
          kernel_call' = IF o = "faulted"
                         THEN [kernel_call EXCEPT !.process = "faulted"]
                         ELSE [kernel_call EXCEPT !.ready = o]

(* what moving promise().result out yields: the stored list when the frame   *)
(* is there.  Of a released frame, whose promise has been destroyed, or      *)
(* through a null handle, the read is undefined: it faults, or it returns    *)
(* the list as it was stored (intact), or it returns whatever the freed      *)
(* memory holds by then, a list of any length with any words, its counts,    *)
(* patterns, indices and matched strings included; such a list is written    *)
(* intact = FALSE and its value is left out.  Moving the list out writes the *)
(* promise, so when the call returns on such a frame it has written freed    *)
(* memory, on which later allocations and releases may end the process       *)
promiseResultOutcomes(frame, stored) ==
    IF frame = "suspended"
    THEN {[outcome |-> "returned", intact |-> TRUE, value |-> stored]}
    ELSE {[outcome |-> "returned", intact |-> TRUE, value |-> stored],
          [outcome |-> "returned", intact |-> FALSE, value |-> <<>>],
          [outcome |-> "faulted", intact |-> FALSE, value |-> <<>>]}

(* Task::get *)
TaskGet(t) ==
    /\ kernel_call.tasks[t].life = "held" /\ kernel_call.process = "running"
    /\ ~kernel_call.got.asked
    /\ \E o \in promiseResultOutcomes(
                    FrameState(kernel_call.tasks[t].handle),
                    findMotifs(kernel_call.sequences, kernel_call.motifs)) :
          kernel_call' = IF o.outcome = "faulted"
                         THEN [kernel_call EXCEPT !.process = "faulted"]
                         ELSE [kernel_call EXCEPT
                                  !.got = [asked |-> TRUE, intact |-> o.intact,
                                           value |-> o.value],
                                  !.results = "held",
                                  !.heap =
                                      IF FrameState(kernel_call.tasks[t].handle)
                                             = "suspended"
                                      THEN @ ELSE "damaged"]

(* the list get() returned goes out of scope.  Moved out of a promise that   *)
(* was destroyed with its frame, it owns buffers that have been released     *)
(* already: releasing them again ends the process (SIGSEGV, SIGABRT) or      *)
(* passes                                                                    *)
ResultsDestroy ==
    /\ kernel_call.results = "held" /\ kernel_call.process = "running"
    /\ \/ kernel_call' = [kernel_call EXCEPT !.results = "destroyed"]
       \/ kernel_call' = [kernel_call EXCEPT !.process = "faulted"]

(* handle.destroy() on the frames a process has: the frame is released; of a *)
(* frame already released that is a second release, which the allocator      *)
(* aborts on or lets pass, and which damages the heap when it passes         *)
handle_destroy(frames, handle) ==
    {[faulted |-> FALSE, damaged |-> frames[handle].state = "released",
      frames |-> [frames EXCEPT ![handle] =
                     [state |-> "released", releases |-> @.releases + 1]]]}
    \cup (IF frames[handle].state = "released"
          THEN {[faulted |-> TRUE, damaged |-> FALSE, frames |-> frames]}
          ELSE {})

(* Task::~Task: a handle that is not null is destroyed *)
TaskDestroy(t) ==
    /\ kernel_call.tasks[t].life = "held" /\ kernel_call.process = "running"
    /\ IF kernel_call.tasks[t].handle = 0
       THEN kernel_call' = [kernel_call EXCEPT !.tasks[t].life = "destroyed"]
       ELSE \E d \in handle_destroy(kernel_call.frames,
                                    kernel_call.tasks[t].handle) :
               kernel_call' =
                   IF d.faulted THEN [kernel_call EXCEPT !.process = "faulted"]
                   ELSE [kernel_call EXCEPT
                            !.tasks[t].life = "destroyed",
                            !.frames = d.frames,
                            !.heap = IF d.damaged THEN "damaged" ELSE @]

(* Task::Task(Task &&other): Task t is made from Task other, whose handle it *)
(* takes; other is left with a null handle                                   *)
TaskMoveConstruct(t, other) ==
    /\ kernel_call.process = "running"
    /\ kernel_call.tasks[t].life = "none"
    /\ kernel_call.tasks[other].life = "held"
    /\ kernel_call' =
          [kernel_call EXCEPT
              !.tasks[t] = [life |-> "held",
                            handle |-> kernel_call.tasks[other].handle],
              !.tasks[other].handle = 0]

(* Task::operator=(Task &&other) on two different Tasks (on one Task it does *)
(* nothing): the handle of Task t is destroyed unless null, then t takes the *)
(* handle of other, which is left with a null handle                         *)
TaskMoveAssign(t, other) ==
    /\ kernel_call.process = "running"
    /\ t # other
    /\ kernel_call.tasks[t].life = "held"
    /\ kernel_call.tasks[other].life = "held"
    /\ \E d \in IF kernel_call.tasks[t].handle = 0
                THEN {[faulted |-> FALSE, damaged |-> FALSE,
                       frames |-> kernel_call.frames]}
                ELSE handle_destroy(kernel_call.frames,
                                    kernel_call.tasks[t].handle) :
          kernel_call' =
              IF d.faulted THEN [kernel_call EXCEPT !.process = "faulted"]
              ELSE [kernel_call EXCEPT
                       !.frames = d.frames,
                       !.heap = IF d.damaged THEN "damaged" ELSE @,
                       !.tasks[t].handle = kernel_call.tasks[other].handle,
                       !.tasks[other].handle = 0]

(* the client allocates or releases memory of its own between two calls: on  *)
(* a damaged heap the allocator may end the process there                    *)
ClientAllocates ==
    /\ kernel_call.process = "running"
    /\ kernel_call.heap = "damaged"
    /\ kernel_call' = [kernel_call EXCEPT !.process = "faulted"]

AsyncNext ==
    /\ \E t \in Tasks :
          \/ FindMotifsAsyncCall(t) \/ TaskReady(t) \/ TaskGet(t)
          \/ ResultsDestroy \/ TaskDestroy(t) \/ ClientAllocates
          \/ \E other \in Tasks :
                TaskMoveConstruct(t, other) \/ TaskMoveAssign(t, other)
    /\ UNCHANGED <<partVars, mpiVars, ompVars, lifeVars, partition_call,
                   codes_call, main_call, parser_call>>

-----------------------------------------------------------------------------
(* The MPI runtime of one process, and the objects that start and stop it *)

World ==
    [runtime |-> mpi_runtime, starts |-> runtime_starts,
     teardowns |-> runtime_teardowns, late |-> late_operations,
     aborted |-> process_aborted]

SetWorld(w) ==
    /\ mpi_runtime' = w.runtime
    /\ runtime_starts' = w.starts
    /\ runtime_teardowns' = w.teardowns
    /\ late_operations' = w.late
    /\ process_aborted' = w.aborted

(* MPI_Initialized: stays true after MPI_Finalize *)
MPI_Initialized(w) == w.runtime # "not_started"

(* MPI_Init: starts the runtime or reports a failure *)
MPI_Init(w) ==
    { [world |-> [w EXCEPT !.runtime = "started", !.starts = @ + 1], ok |-> TRUE],
      [world |-> w, ok |-> FALSE] }

(* any runtime operation (rank or size query, send, receive, broadcast,      *)
(* barrier).  Issued while the runtime is not up it is erroneous: the        *)
(* library ends the process, or returns an error the code does not look at   *)
MPI_Call(w) ==
    IF w.aborted THEN {w}
    ELSE IF w.runtime = "started" THEN {w}
    ELSE { [w EXCEPT !.late = @ + 1],
           [w EXCEPT !.late = @ + 1, !.aborted = TRUE] }

(* n runtime operations one after the other; none follows one that ended    *)
(* the process                                                               *)
RECURSIVE MPI_Calls(_, _)
MPI_Calls(w, n) ==
    IF n = 0 THEN {w} ELSE UNION {MPI_Calls(v, n - 1) : v \in MPI_Call(w)}

(* MPI_Finalize: a second teardown is erroneous in the same way *)
MPI_Finalize(w) ==
    IF w.runtime = "started"
    THEN { [w EXCEPT !.runtime = "finalized", !.teardowns = @ + 1] }
    ELSE { [w EXCEPT !.teardowns = @ + 1],
           [w EXCEPT !.teardowns = @ + 1, !.aborted = TRUE] }

(* a faulty variant: the manager is marked initialized although MPI_Init     *)
(* failed                                                                    *)
MPIManager_initializeMarksOnFailure(initialized_, w) ==
    LET started == IF MPI_Initialized(w) THEN {[world |-> w, ok |-> TRUE]}
                   ELSE MPI_Init(w)
    IN  UNION { IF ~i.ok
                THEN {[world |-> i.world, initialized_ |-> TRUE,
                       returned |-> FALSE, queried |-> FALSE]}
                ELSE { [world |-> q, initialized_ |-> ~q.aborted,
                        returned |-> ~q.aborted, queried |-> TRUE] :
                       q \in MPI_Calls(i.world, 2) }
              : i \in started }

(* MPIManager::initialize on a manager whose flag is initialized_: MPI_Init  *)
(* unless MPI_Initialized, and when it did not fail the two queries          *)
(* MPI_Comm_rank and MPI_Comm_size; queried tells whether they were issued   *)
MPIManager_initialize(initialized_, w) ==
    LET started == IF MPI_Initialized(w) THEN {[world |-> w, ok |-> TRUE]}
                   ELSE MPI_Init(w)
    IN  UNION { IF ~i.ok
                THEN {[world |-> i.world, initialized_ |-> initialized_,
                       returned |-> FALSE, queried |-> FALSE]}
                ELSE { [world |-> q, initialized_ |-> ~q.aborted,
                        returned |-> ~q.aborted, queried |-> TRUE] :
                       q \in MPI_Calls(i.world, 2) }
              : i \in started }

(* a faulty variant: initialized_ is not cleared *)
MPIManager_finalizeKeepsFlag(initialized_, w) ==
    IF initialized_
    THEN { [world |-> f, initialized_ |-> TRUE, released |-> 1] :
           f \in MPI_Finalize(w) }
    ELSE { [world |-> w, initialized_ |-> FALSE, released |-> 0] }

(* MPIManager::finalize, also the body of ~MPIManager *)
MPIManager_finalize(initialized_, w) ==
    IF initialized_
    THEN { [world |-> f, initialized_ |-> FALSE, released |-> 1] :
           f \in MPI_Finalize(w) }
    ELSE { [world |-> w, initialized_ |-> FALSE, released |-> 0] }

Objects == 1 .. MaxObjects

(* an object: its class, whether it exists, its initialized_ flag, the state *)
(* of a ParallelProcessor's mpi_manager_, and, since its last successful     *)
(* initialize, the finalize calls made on it and the MPI_Finalize calls they *)
(* issued; finalized records that a finalize call has torn it down; raced    *)
(* that the threads of a batch wrote the performance_stats_ map of its       *)
(* motif_finder_ at the same time, which leaves the map in any state         *)
NoObject ==
    [kind |-> "none", life |-> "unborn", initialized_ |-> FALSE,
     manager |-> "null", initialized_once |-> FALSE, finalize_calls |-> 0,
     releases |-> 0, finalized |-> FALSE, raced |-> FALSE]

(* a client call on object o: how it ended, whether it read the input files  *)
(* and whether it issued a runtime operation that needs the runtime up (a    *)
(* query, a send, a receive, a broadcast, a barrier)                         *)
Call(o, operation, outcome, loaded, communicated) ==
    [object |-> o, operation |-> operation, outcome |-> outcome,
     loaded |-> loaded, communicated |-> communicated]
NoCall == Call(0, "none", "none", FALSE, FALSE)

LifecycleInit ==
    /\ mpi_runtime = "not_started"
    /\ runtime_starts = 0
    /\ runtime_teardowns = 0
    /\ late_operations = 0
    /\ process_aborted = FALSE
    /\ objects = [o \in Objects |-> NoObject]
    /\ api_calls = 0
    /\ last_call = NoCall

CanCall(o, kind) ==
    /\ ~process_aborted
    /\ api_calls < MaxCalls
    /\ objects[o].kind = kind
    /\ objects[o].life = "alive"

(* how a call ended that reached its end in world w *)
Ended(w, outcome) == IF w.aborted THEN "aborted" ELSE outcome

(* ParallelProcessor::ParallelProcessor and MPIManager::MPIManager *)
Construct(o, kind) ==
    /\ ~process_aborted
    /\ api_calls < MaxCalls
    /\ objects[o].life = "unborn"
    /\ \A n \in Objects : n < o => objects[n].life # "unborn"
    /\ objects' = [objects EXCEPT ![o] = [NoObject EXCEPT !.kind = kind,
                                                          !.life = "alive"]]
    /\ api_calls' = api_calls + 1
    /\ last_call' = Call(o, "construct", "returned", FALSE, FALSE)
    /\ UNCHANGED <<mpi_runtime, runtime_starts, runtime_teardowns,
                   late_operations, process_aborted>>

(* ParallelProcessor::initialize: the new manager replaces the old one,      *)
(* whose destructor finalizes it, and is then initialized; when that         *)
(* succeeds a new MotifFinder replaces the old one, and destroying an old    *)
(* one whose map was raced on is undefined: the process is killed there by   *)
(* the allocator, or the call goes on                                        *)
ProcessorInitialize(o) ==
    /\ CanCall(o, "processor")
    /\ \E old \in MPIManager_finalize(objects[o].manager = "initialized", World) :
          IF old.world.aborted
          THEN /\ SetWorld(old.world)
               /\ UNCHANGED objects
               /\ last_call' = Call(o, "initialize", "aborted", FALSE, FALSE)
          ELSE \E new \in MPIManager_initialize(FALSE, old.world) :
                  \/ /\ SetWorld(new.world)
                     /\ objects' = [objects EXCEPT ![o] =
                           IF new.world.aborted THEN @
                           ELSE IF new.returned
                           THEN [@ EXCEPT !.initialized_ = TRUE,
                                          !.manager = "initialized",
                                          !.initialized_once = TRUE,
                                          !.finalize_calls = 0, !.releases = 0,
                                          !.raced = FALSE]
                           ELSE [@ EXCEPT !.manager = IF new.initialized_
                                                      THEN "initialized"
                                                      ELSE "idle"]]
                     /\ last_call' =
                           Call(o, "initialize",
                                Ended(new.world, IF new.returned THEN "true"
                                                 ELSE "false"),
                                FALSE, new.queried)
                  \/ /\ objects[o].raced
                     /\ new.returned /\ ~new.world.aborted
                     /\ SetWorld([new.world EXCEPT !.aborted = TRUE])
                     /\ objects' = [objects EXCEPT ![o] =
                           [@ EXCEPT !.manager = "initialized",
                                     !.finalize_calls = 0, !.releases = 0]]
                     /\ last_call' = Call(o, "initialize", "killed", FALSE,
                                          new.queried)
    /\ api_calls' = api_calls + 1

(* ParallelProcessor::processMotifs past its guard, as the runtime of a      *)
(* single-rank job sees it (no peer to send to or receive from, so no call   *)
(* waits): loadInputFiles throws, or with k motifs loaded broadcastMotifs    *)
(* issues MPI_Bcast once for the count and three times per motif; then the   *)
(* thread-parallel batch, in which the threads may race on the map of the    *)
(* MotifFinder when it has two motifs or more (see                           *)
(* processMotifsParallelOutcomes): the process is killed there, or the batch *)
(* returns and leaves the map raced on or sound; a batch of one motif or     *)
(* more writes the map, and may be killed too when an earlier batch raced on *)
(* it; then gatherResults, which issues nothing                              *)
ProcessMotifsRuns(w, raced) ==
    {[world |-> w, outcome |-> "load_error", communicated |-> FALSE,
      raced |-> raced]}
    \cup UNION {
        {[world |-> b, outcome |-> Ended(b, "returned"), communicated |-> TRUE,
          raced |-> r] :
            b \in MPI_Calls(w, 1 + 3 * k),
            r \in IF k >= 2 THEN {raced, TRUE} ELSE {raced}}
        \cup (IF k >= 2 \/ (raced /\ k >= 1)
              THEN {[world |-> [b EXCEPT !.aborted = TRUE], outcome |-> "killed",
                     communicated |-> TRUE, raced |-> raced] :
                       b \in {c \in MPI_Calls(w, 1 + 3 * k) : ~c.aborted}}
              ELSE {})
        : k \in 0 .. MaxLoaded }

(* a faulty variant: no guard *)
ProcessorProcessMotifsUnguarded(o) ==
    /\ CanCall(o, "processor")
    /\ \E run \in ProcessMotifsRuns(World, objects[o].raced) :
          /\ SetWorld(run.world)
          /\ objects' = [objects EXCEPT ![o].raced =
                            IF run.world.aborted THEN @ ELSE run.raced]
          /\ last_call' = Call(o, "processMotifs", run.outcome, TRUE,
                               run.communicated)
    /\ api_calls' = api_calls + 1

(* ParallelProcessor::processMotifs *)
ProcessorProcessMotifs(o) ==
    /\ CanCall(o, "processor")
    /\ IF ~objects[o].initialized_
       THEN /\ UNCHANGED <<mpi_runtime, runtime_starts, runtime_teardowns,
                           late_operations, process_aborted, objects>>
            /\ last_call' =
                  Call(o, "processMotifs", "not_initialized", FALSE, FALSE)
       ELSE \E run \in ProcessMotifsRuns(World, objects[o].raced) :
               /\ SetWorld(run.world)
               /\ objects' = [objects EXCEPT ![o].raced =
                                 IF run.world.aborted THEN @ ELSE run.raced]
               /\ last_call' = Call(o, "processMotifs", run.outcome, TRUE,
                                    run.communicated)
    /\ api_calls' = api_calls + 1

(* ParallelProcessor::printResults and saveResults start with                *)
(* mpi_manager_->isMaster(), which reads rank_ and issues no runtime         *)
(* operation.  On a processor initialize was never called on mpi_manager_ is *)
(* null and the read is undefined: the process is killed, or the call goes   *)
(* on with whatever it read                                                  *)
ProcessorReport(o, operation) ==
    /\ CanCall(o, "processor")
    /\ \/ /\ UNCHANGED process_aborted
          /\ last_call' = Call(o, operation, "returned", FALSE, FALSE)
       \/ /\ objects[o].manager = "null"
          /\ process_aborted' = TRUE
          /\ last_call' = Call(o, operation, "killed", FALSE, FALSE)
    /\ UNCHANGED <<mpi_runtime, runtime_starts, runtime_teardowns,
                   late_operations, objects>>
    /\ api_calls' = api_calls + 1

ProcessorPrintResults(o) == ProcessorReport(o, "printResults")
ProcessorSaveResults(o) == ProcessorReport(o, "saveResults")

(* ParallelProcessor::finalize on the state of object ob *)
ParallelProcessor_finalize(ob, w) ==
    IF ob.initialized_ /\ ob.manager # "null"
    THEN { [world |-> f.world,
            object |-> [ob EXCEPT !.initialized_ = FALSE,
                           !.manager = IF f.initialized_ THEN "initialized"
                                       ELSE "idle",
                           !.finalize_calls = @ + 1,
                           !.releases = @ + f.released,
                           !.finalized = TRUE]] :
           f \in MPIManager_finalize(ob.manager = "initialized", w) }
    ELSE { [world |-> w, object |-> [ob EXCEPT !.finalize_calls = @ + 1]] }

ProcessorFinalize(o) ==
    /\ CanCall(o, "processor")
    /\ \E f \in ParallelProcessor_finalize(objects[o], World) :
          /\ SetWorld(f.world)
          /\ objects' = [objects EXCEPT ![o] = f.object]
          /\ last_call' = Call(o, "finalize", Ended(f.world, "returned"),
                               FALSE, FALSE)
    /\ api_calls' = api_calls + 1

(* ParallelProcessor::~ParallelProcessor: finalize(), then the members are   *)
(* destroyed last declared first: motif_finder_, where destroying a map that *)
(* was raced on is undefined and the allocator may kill the process, and     *)
(* after it mpi_manager_, where ~MPIManager finalizes a manager still marked *)
(* initialized                                                               *)
ProcessorDestroy(o) ==
    /\ CanCall(o, "processor")
    /\ \E f \in ParallelProcessor_finalize(objects[o], World) :
          IF f.world.aborted
          THEN /\ SetWorld(f.world)
               /\ objects' = [objects EXCEPT ![o] = f.object]
               /\ last_call' = Call(o, "destroy", "aborted", FALSE, FALSE)
          ELSE \/ \E m \in MPIManager_finalize(f.object.manager = "initialized",
                                               f.world) :
                     /\ SetWorld(m.world)
                     /\ objects' = [objects EXCEPT ![o] =
                           [f.object EXCEPT !.life = "destroyed",
                                            !.manager = "null",
                                            !.releases = @ + m.released]]
                     /\ last_call' = Call(o, "destroy",
                                          Ended(m.world, "returned"), FALSE,
                                          FALSE)
               \/ /\ f.object.raced
                  /\ SetWorld([f.world EXCEPT !.aborted = TRUE])
                  /\ objects' = [objects EXCEPT ![o] = f.object]
                  /\ last_call' = Call(o, "destroy", "killed", FALSE, FALSE)
    /\ api_calls' = api_calls + 1

(* MPIManager::initialize on a manager the client owns *)
ManagerInitialize(o) ==
    /\ CanCall(o, "manager")
    /\ \E i \in MPIManager_initialize(objects[o].initialized_, World) :
          /\ SetWorld(i.world)
          /\ objects' = [objects EXCEPT ![o] =
                IF i.world.aborted THEN @
                ELSE IF i.returned
                THEN [@ EXCEPT !.initialized_ = TRUE, !.initialized_once = TRUE,
                               !.finalize_calls = 0, !.releases = 0]
                ELSE [@ EXCEPT !.initialized_ = i.initialized_]]
          /\ last_call' =
                Call(o, "initialize",
                     Ended(i.world, IF i.returned THEN "true" ELSE "false"),
                     FALSE, i.queried)
    /\ api_calls' = api_calls + 1

(* MPIManager::distributeSequences on a manager the client owns, as the     *)
(* runtime of a single-rank job sees it: rank_ is 0 and size_ is 1, from the *)
(* constructor or from the queries, so the master branch runs and its loops  *)
(* over the ranks 1 .. size_ - 1 send nothing                                *)
ManagerDistributeSequences(o) ==
    /\ CanCall(o, "manager")
    /\ last_call' = Call(o, "distributeSequences", "returned", FALSE, FALSE)
    /\ UNCHANGED <<mpi_runtime, runtime_starts, runtime_teardowns,
                   late_operations, process_aborted, objects>>
    /\ api_calls' = api_calls + 1

(* MPIManager::broadcastMotifs of k motifs on a manager the client owns: the *)
(* master branch issues MPI_Bcast once for the count and three times per     *)
(* motif, whether or not the manager is initialized                          *)
ManagerBroadcastMotifs(o) ==
    /\ CanCall(o, "manager")
    /\ \E k \in 0 .. MaxLoaded :
          \E w \in MPI_Calls(World, 1 + 3 * k) :
             /\ SetWorld(w)
             /\ last_call' = Call(o, "broadcastMotifs", Ended(w, "returned"),
                                  FALSE, TRUE)
    /\ UNCHANGED objects
    /\ api_calls' = api_calls + 1

(* MPIManager::gatherResults on a manager the client owns: the master branch *)
(* of a single-rank job receives from no rank                                *)
ManagerGatherResults(o) ==
    /\ CanCall(o, "manager")
    /\ last_call' = Call(o, "gatherResults", "returned", FALSE, FALSE)
    /\ UNCHANGED <<mpi_runtime, runtime_starts, runtime_teardowns,
                   late_operations, process_aborted, objects>>
    /\ api_calls' = api_calls + 1

(* MPIManager::synchronize: MPI_Barrier, whether or not the manager is       *)
(* initialized                                                               *)
ManagerSynchronize(o) ==
    /\ CanCall(o, "manager")
    /\ \E w \in MPI_Call(World) :
          /\ SetWorld(w)
          /\ last_call' = Call(o, "synchronize", Ended(w, "returned"),
                               FALSE, TRUE)
    /\ UNCHANGED objects
    /\ api_calls' = api_calls + 1

(* MPIManager::finalize on a manager the client owns *)
ManagerFinalize(o) ==
    /\ CanCall(o, "manager")
    /\ \E f \in MPIManager_finalize(objects[o].initialized_, World) :
          /\ SetWorld(f.world)
          /\ objects' = [objects EXCEPT ![o] =
                [@ EXCEPT !.initialized_ = f.initialized_,
                          !.finalize_calls = @ + 1,
                          !.releases = @ + f.released,
                          !.finalized = @ \/ f.released = 1]]
          /\ last_call' = Call(o, "finalize", Ended(f.world, "returned"),
                               FALSE, FALSE)
    /\ api_calls' = api_calls + 1

(* MPIManager::~MPIManager *)
ManagerDestroy(o) ==
    /\ CanCall(o, "manager")
    /\ \E f \in MPIManager_finalize(objects[o].initialized_, World) :
          /\ SetWorld(f.world)
          /\ objects' = [objects EXCEPT ![o] =
                [@ EXCEPT !.initialized_ = f.initialized_,
                          !.life = IF f.world.aborted THEN @ ELSE "destroyed",
                          !.finalize_calls = @ + 1,
                          !.releases = @ + f.released,
                          !.finalized = @ \/ f.released = 1]]
          /\ last_call' = Call(o, "destroy", Ended(f.world, "returned"),
                               FALSE, FALSE)
    /\ api_calls' = api_calls + 1

LifecycleNext ==
    /\ \E o \in Objects :
          \/ Construct(o, "processor")
          \/ Construct(o, "manager")
          \/ ProcessorInitialize(o)
          \/ ProcessorProcessMotifs(o)
          \/ ProcessorPrintResults(o)
          \/ ProcessorSaveResults(o)
          \/ ProcessorFinalize(o)
          \/ ProcessorDestroy(o)
          \/ ManagerInitialize(o)
          \/ ManagerDistributeSequences(o)
          \/ ManagerBroadcastMotifs(o)
          \/ ManagerGatherResults(o)
          \/ ManagerSynchronize(o)
          \/ ManagerFinalize(o)
          \/ ManagerDestroy(o)
    /\ UNCHANGED <<partVars, mpiVars, ompVars, callVars>>

-----------------------------------------------------------------------------
(* MPIManager::synchronize: MPI_Barrier on MPI_COMM_WORLD, rank by rank.     *)
(* runs[r] counts the synchronize calls rank r has returned from             *)

(* what a synchronize call leaves alone *)
barrierIdle == <<size_, eagerLimit, all_sequences, motifs, loc, chan, bcastLog,
                 bcastSeen, local_sequences, local_motifs, local_results,
                 all_results, comm_stats_, mpiError, partVars, ompVars,
                 lifeVars, callVars>>

(* the synchronize calls rank r has entered *)
Entered(r) == runs[r] + (IF pc[r] = "synchronize" THEN 1 ELSE 0)

BarrierInit ==
    /\ size_ \in 1 .. MaxSize
    /\ pc = [r \in Ranks |-> "running"]
    /\ runs = [r \in Ranks |-> 0]
    /\ eagerLimit = 0
    /\ all_sequences = <<>> /\ motifs = <<>> /\ loc = <<>>
    /\ chan = <<>> /\ bcastLog = <<>> /\ bcastSeen = <<>>
    /\ local_sequences = <<>> /\ local_motifs = <<>> /\ local_results = <<>>
    /\ all_results = <<>> /\ comm_stats_ = <<>>
    /\ mpiError = FALSE

(* rank r calls synchronize and blocks in MPI_Barrier *)
SynchronizeEnter(r) ==
    /\ r \in Ranks
    /\ pc[r] = "running"
    /\ runs[r] < MaxBarriers
    /\ pc' = [pc EXCEPT ![r] = "synchronize"]
    /\ UNCHANGED <<runs, barrierIdle>>

(* a faulty variant: the call returns without waiting for the other ranks *)
SynchronizeReturnAlone(r) ==
    /\ r \in Ranks
    /\ pc[r] = "synchronize"
    /\ pc' = [pc EXCEPT ![r] = "running"]
    /\ runs' = [runs EXCEPT ![r] = @ + 1]
    /\ UNCHANGED barrierIdle

(* MPI_Barrier returns on rank r: every rank of the communicator has made    *)
(* the same barrier call                                                     *)
SynchronizeReturn(r) ==
    /\ r \in Ranks
    /\ pc[r] = "synchronize"
    /\ \A q \in Ranks : Entered(q) >= runs[r] + 1
    /\ pc' = [pc EXCEPT ![r] = "running"]
    /\ runs' = [runs EXCEPT ![r] = @ + 1]
    /\ UNCHANGED barrierIdle

BarrierNext ==
    \E r \in 0 .. MaxSize - 1 : SynchronizeEnter(r) \/ SynchronizeReturn(r)

-----------------------------------------------------------------------------
(* The command line: parseArguments and main of main.cpp, and the test_main  *)
(* of test_main.cpp.  An argument is its characters; args is argv without    *)
(* argv[0]                                                                   *)

ArgumentPool ==
    { <<"-", "h">>, <<"-", "-", "h", "e", "l", "p">>, <<"-", "v">>,
      <<"-", "t">>, <<"4">>, <<"0">>, <<"a">>, <<"b">>, <<"-", "x">>,
      <<" ", "7">>, <<"2", "1", "4", "7", "4", "8", "3", "6", "4", "8">> }

IsHelp(arg) == arg = <<"-", "h">> \/ arg = <<"-", "-", "h", "e", "l", "p">>
IsVerbose(arg) ==
    arg = <<"-", "v">> \/ arg = <<"-", "-", "v", "e", "r", "b", "o", "s", "e">>
IsThreads(arg) ==
    arg = <<"-", "t">> \/ arg = <<"-", "-", "t", "h", "r", "e", "a", "d", "s">>

DigitValue ==
    [c \in {"0", "1", "2", "3", "4", "5", "6", "7", "8", "9"} |->
        CASE c = "0" -> 0 [] c = "1" -> 1 [] c = "2" -> 2 [] c = "3" -> 3
          [] c = "4" -> 4 [] c = "5" -> 5 [] c = "6" -> 6 [] c = "7" -> 7
          [] c = "8" -> 8 [] c = "9" -> 9]

(* the characters std::isspace accepts in the C locale, which stoi skips and *)
(* trim strips                                                               *)
Whitespace == {" ", "\t", "\n", "\r", "\f", "VT"}

(* str without its leading white space *)
RECURSIVE SkipWhitespace(_)
SkipWhitespace(str) ==
    IF str # <<>> /\ Head(str) \in Whitespace THEN SkipWhitespace(Tail(str))
    ELSE str

(* the value of the longest prefix of digits of str, after value, counted    *)
(* below zero so that every int has its place; range tells whether the value *)
(* stayed within int when it carries the sign negative                       *)
RECURSIVE DigitsValue(_, _, _)
DigitsValue(str, value, negative) ==
    IF str = <<>> \/ Head(str) \notin DOMAIN DigitValue
    THEN IF ~negative /\ value = INT_MIN
         THEN [range |-> FALSE, value |-> 0]
         ELSE [range |-> TRUE, value |-> IF negative THEN value ELSE 0 - value]
    ELSE LET d == DigitValue[Head(str)]
         IN  IF value < (INT_MIN + d + 9) \div 10
             THEN [range |-> FALSE, value |-> 0]
             ELSE DigitsValue(Tail(str), 10 * value - d, negative)

(* std::stoi: white space is skipped, then an optional sign, then digits;    *)
(* throws std::invalid_argument when there is no digit and std::out_of_range *)
(* when the value is not an int                                              *)
stoi(str) ==
    LET text == SkipWhitespace(str)
        signed == text # <<>> /\ Head(text) \in {"+", "-"}
        digits == IF signed THEN Tail(text) ELSE text
        number == DigitsValue(digits, 0, signed /\ Head(text) = "-")
    IN  IF digits = <<>> \/ Head(digits) \notin DOMAIN DigitValue
        THEN [threw |-> TRUE, error |-> "invalid_argument", value |-> 0]
        ELSE IF ~number.range
        THEN [threw |-> TRUE, error |-> "out_of_range", value |-> 0]
        ELSE [threw |-> FALSE, error |-> "none", value |-> number.value]

(* CommandLineArgs as its constructor leaves it *)
CommandLineArgs ==
    [chip_seq_file |-> <<>>, motifs_file |-> <<>>, output_file |-> <<>>,
     num_threads |-> 0, verbose |-> FALSE, help |-> FALSE]

Expected(value) == [has_value |-> TRUE, value |-> value, error |-> "none"]
Unexpected(error) ==
    [has_value |-> FALSE, value |-> CommandLineArgs, error |-> error]

(* a positional argument fills the first empty one of the three file fields *)
TakePositional(result, arg) ==
    IF result.chip_seq_file = <<>> THEN [result EXCEPT !.chip_seq_file = arg]
    ELSE IF result.motifs_file = <<>> THEN [result EXCEPT !.motifs_file = arg]
    ELSE IF result.output_file = <<>> THEN [result EXCEPT !.output_file = arg]
    ELSE result

(* the loop of parseArguments from args[i] on, and the check after it *)
RECURSIVE ParseArgumentsFrom(_, _, _)
ParseArgumentsFrom(args, i, result) ==
    IF i > Len(args)
    THEN IF result.chip_seq_file = <<>> \/ result.motifs_file = <<>>
         THEN Unexpected("MissingRequired")
         ELSE Expected(result)
    ELSE LET arg == args[i]
         IN  IF IsHelp(arg)
             THEN ParseArgumentsFrom(args, i + 1, [result EXCEPT !.help = TRUE])
             ELSE IF IsVerbose(arg)
             THEN ParseArgumentsFrom(args, i + 1,
                                     [result EXCEPT !.verbose = TRUE])
             ELSE IF IsThreads(arg)
             THEN IF i + 1 <= Len(args)
                  THEN LET num == stoi(args[i + 1])
                       IN  IF num.threw \/ num.value <= 0
                           THEN Unexpected("InvalidValue")
                           ELSE ParseArgumentsFrom(args, i + 2,
                                    [result EXCEPT !.num_threads = num.value])
                  ELSE Unexpected("InvalidArgument")
             ELSE IF arg[1] # "-"
             THEN ParseArgumentsFrom(args, i + 1, TakePositional(result, arg))
             ELSE Unexpected("Unknown")

parseArguments(args) == ParseArgumentsFrom(args, 1, CommandLineArgs)

(* validateInputFiles, given the set of paths that exist *)
validateInputFiles(args, existing) ==
    args.chip_seq_file \in existing /\ args.motifs_file \in existing

(* main: how the process ended, its exit status and what it printed.         *)
(* existing is the set of paths that exist; run is how the processor fared:  *)
(* initialize returned false, a call threw, the process was killed inside    *)
(* processMotifs (the data race of the thread-parallel batch), all calls     *)
(* returned, or all calls returned and the process was killed when the       *)
(* processor was destroyed at the end of the try block (the map the batch    *)
(* raced on is freed there), after the results were printed or saved; opens  *)
(* tells whether saveResults can open the output file.  A killed process has *)
(* no exit status, written -1                                                *)
main(args, existing, run, opens) ==
    LET args_result == parseArguments(args)
    IN  IF ~args_result.has_value
        THEN [ended |-> "exited", status |-> 1, printed |-> <<"error", "usage">>,
              error |-> args_result.error, processed |-> FALSE]
        ELSE IF args_result.value.help
        THEN [ended |-> "exited", status |-> 0, printed |-> <<"usage">>,
              error |-> "none", processed |-> FALSE]
        ELSE IF ~validateInputFiles(args_result.value, existing)
        THEN [ended |-> "exited", status |-> 1, printed |-> <<"error">>,
              error |-> "none", processed |-> FALSE]
        ELSE IF run = "killed"
        THEN [ended |-> "killed", status |-> -1, printed |-> <<>>,
              error |-> "none", processed |-> TRUE]
        ELSE IF run \in {"completed", "killed_at_exit"}
        THEN [ended |-> IF run = "completed" THEN "exited" ELSE "killed",
              status |-> IF run = "completed" THEN 0 ELSE -1,
              printed |-> IF args_result.value.output_file = <<>> \/ opens
                          THEN <<"results">> ELSE <<"error">>,
              error |-> "none", processed |-> TRUE]
        ELSE [ended |-> "exited", status |-> 1, printed |-> <<"error">>,
              error |-> "none", processed |-> run = "threw"]

(* the loop of test_main from argv[i] on; stoi is not guarded there *)
RECURSIVE TestMainFrom(_, _, _)
TestMainFrom(args, i, files) ==
    IF i > Len(args)
    THEN [status |-> IF Len(files) < 2 THEN 1 ELSE 0, threw |-> FALSE]
    ELSE LET arg == args[i]
         IN  IF IsHelp(arg) THEN [status |-> 0, threw |-> FALSE]
             ELSE IF IsVerbose(arg) THEN TestMainFrom(args, i + 1, files)
             ELSE IF IsThreads(arg)
             THEN IF i + 1 <= Len(args)
                  THEN LET num == stoi(args[i + 1])
                       IN  IF num.threw THEN [status |-> 1, threw |-> TRUE]
                           ELSE IF num.value <= 0
                           THEN [status |-> 1, threw |-> FALSE]
                           ELSE TestMainFrom(args, i + 2, files)
                  ELSE [status |-> 1, threw |-> FALSE]
             ELSE IF arg[1] # "-"
             THEN TestMainFrom(args, i + 1,
                               IF Len(files) < 3 THEN Append(files, arg)
                               ELSE files)
             ELSE [status |-> 1, threw |-> FALSE]

test_main(args) == TestMainFrom(args, 1, <<>>)

MainInit ==
    \E n \in 0 .. MaxArgs : \E args \in [1 .. n -> ArgumentPool] :
        main_call = [args |-> args, function |-> "none", ended |-> "none",
                     status |-> 0, printed |-> <<>>, error |-> "none",
                     processed |-> FALSE, threw |-> FALSE]

(* the arguments that can name a file *)
FileArguments(args) == {args[i] : i \in {k \in DOMAIN args : args[k][1] # "-"}}

(* the program is started with the arguments; any of the files they name may *)
(* exist                                                                     *)
MainCall ==
    /\ \E existing \in SUBSET FileArguments(main_call.args) :
       \E run \in {"initialize_failed", "threw", "killed", "completed",
                   "killed_at_exit"} :
       \E opens \in BOOLEAN :
          LET ended == main(main_call.args, existing, run, opens)
          IN  main_call' = [args |-> main_call.args, function |-> "main",
                            ended |-> ended.ended,
                            status |-> ended.status, printed |-> ended.printed,
                            error |-> ended.error,
                            processed |-> ended.processed, threw |-> FALSE]
    /\ UNCHANGED <<partVars, mpiVars, ompVars, lifeVars, partition_call,
                   codes_call, kernel_call, parser_call>>

(* a test calls test_main with the arguments *)
TestMainCall ==
    /\ LET ended == test_main(main_call.args)
       IN  main_call' = [args |-> main_call.args, function |-> "test_main",
                         ended |-> IF ended.threw THEN "threw" ELSE "returned",
                         status |-> ended.status, printed |-> <<>>,
                         error |-> "none", processed |-> FALSE,
                         threw |-> ended.threw]
    /\ UNCHANGED <<partVars, mpiVars, ompVars, lifeVars, partition_call,
                   codes_call, kernel_call, parser_call>>

MainNext == MainCall \/ TestMainCall

-----------------------------------------------------------------------------
(* DNAParser::parseChIPSequences.  A file is its characters; the vertical    *)
(* tab is written "VT"                                                       *)

(* trim: the characters from the first to the last one outside Whitespace *)
trim(str) ==
    LET kept == {k \in DOMAIN str : str[k] \notin Whitespace}
    IN  IF kept = {} THEN <<>>
        ELSE SubSeq(str, CHOOSE k \in kept : \A other \in kept : k <= other,
                         CHOOSE k \in kept : \A other \in kept : k >= other)

(* std::views::split over a non-empty rest: the token up to the first        *)
(* delimiter, then the tokens of what follows it, at least one               *)
RECURSIVE SplitTokens(_, _)
SplitTokens(str, delimiter) ==
    LET at == {k \in DOMAIN str : str[k] = delimiter}
    IN  IF at = {} THEN <<str>>
        ELSE LET first == CHOOSE k \in at : \A other \in at : k <= other
             IN  <<SubSeq(str, 1, first - 1)>>
                    \o SplitTokens(SubSeq(str, first + 1, Len(str)), delimiter)

(* split: an empty string has no token *)
split(str, delimiter) ==
    IF str = <<>> THEN <<>> ELSE SplitTokens(str, delimiter)

splitLines(text) == split(text, "\n")

(* DNAParser::parseHeader *)
parseHeader(header_line) ==
    LET header_parts == split(header_line, "\t")
    IN  [id |-> Tail(header_parts[1]), metadata |-> Tail(header_parts)]

(* DNAParser::cleanSequence *)
RECURSIVE cleanSequence(_)
cleanSequence(sequence_lines) ==
    IF sequence_lines = <<>> THEN <<>>
    ELSE SelectSeq(trim(Head(sequence_lines)), LAMBDA c : c \notin Whitespace)
            \o cleanSequence(Tail(sequence_lines))

(* DNAParser::parseChIPSequence *)
parseChIPSequence(header_line, sequence_lines) ==
    [id |-> parseHeader(header_line).id,
     sequence |-> cleanSequence(sequence_lines),
     metadata |-> parseHeader(header_line).metadata]

(* a faulty variant: lower-case symbols are rejected *)
validateSequenceUpperOnly(sequence) ==
    /\ sequence # <<>>
    /\ \A k \in DOMAIN sequence : sequence[k] \in {"A", "T", "G", "C"}

(* DNAParser::validateSequence *)
validateSequence(sequence) ==
    /\ sequence # <<>>
    /\ \A k \in DOMAIN sequence : toupper(sequence[k]) \in {"A", "T", "G", "C"}

(* the record in hand is parsed and, when valid, pushed *)
FlushRecord(loop) ==
    IF loop.current_header # <<>> /\ loop.current_sequence_lines # <<>>
    THEN LET seq == parseChIPSequence(loop.current_header,
                                      loop.current_sequence_lines)
         IN  IF validateSequence(seq.sequence)
             THEN [loop EXCEPT !.sequences = Append(@, seq),
                               !.stats = @ \cup {"sequences_parsed"}]
             ELSE [loop EXCEPT !.stats = @ \cup {"sequences_invalid"}]
    ELSE loop

(* the loop of parseChIPSequences over lines[i..], and the flush after it *)
RECURSIVE ParseLines(_, _, _)
ParseLines(lines, i, loop) ==
    IF i > Len(lines) THEN FlushRecord(loop)
    ELSE LET trimmed_line == trim(lines[i])
         IN  IF trimmed_line = <<>> THEN ParseLines(lines, i + 1, loop)
             ELSE IF trimmed_line[1] = ">"
             THEN ParseLines(lines, i + 1,
                             [FlushRecord(loop) EXCEPT
                                 !.current_header = trimmed_line,
                                 !.current_sequence_lines = <<>>])
             ELSE ParseLines(lines, i + 1,
                             [loop EXCEPT !.current_sequence_lines =
                                              Append(@, trimmed_line)])

(* what a path can be: missing, a directory, a regular file the process      *)
(* cannot open, one it opens but cannot read, or a regular file it reads     *)
FileKinds == {"missing", "directory", "unopenable", "unreadable", "regular"}

(* isFileReadable and readFile on such a path: the error they end in *)
ReadFileError(file) ==
    IF file \in {"missing", "directory", "unopenable"} THEN "FileNotFound"
    ELSE IF file = "unreadable" THEN "IOError"
    ELSE "none"

(* DNAParser::parseChIPSequences on a path with the given content, by a      *)
(* parser whose statistics hold the keys stats_; stats are the keys after    *)
(* the call                                                                  *)
parseChIPSequences(file, content, stats_) ==
    IF ReadFileError(file) # "none"
    THEN [has_value |-> FALSE, error |-> ReadFileError(file), value |-> <<>>,
          stats |-> stats_]
    ELSE LET loop == ParseLines(splitLines(content), 1,
                         [sequences |-> <<>>, current_header |-> <<>>,
                          current_sequence_lines |-> <<>>,
                          stats |-> stats_ \cup {"files_opened"}])
         IN  [has_value |-> TRUE, error |-> "none", value |-> loop.sequences,
              stats |-> loop.stats \cup {"files_closed"}]

(* the longest prefix of str made of characters of set *)
Span(str, set) ==
    LET stops == {k \in DOMAIN str : str[k] \notin set}
    IN  IF stops = {} THEN str
        ELSE SubSeq(str, 1, (CHOOSE k \in stops : \A other \in stops : k <= other) - 1)

(* str without its first n characters *)
Drop(str, n) == SubSeq(str, n + 1, Len(str))

(* str starts with word, letters compared without case; word is upper case *)
StartsWith(str, word) ==
    /\ Len(str) >= Len(word)
    /\ \A k \in DOMAIN word : toupper(str[k]) = word[k]

HexDigitValue ==
    [c \in DOMAIN DigitValue \cup {"A", "B", "C", "D", "E", "F"} |->
        CASE c = "A" -> 10 [] c = "B" -> 11 [] c = "C" -> 12 [] c = "D" -> 13
          [] c = "E" -> 14 [] c = "F" -> 15 [] OTHER -> DigitValue[c]]
HexDigits == DOMAIN HexDigitValue \cup {"a", "b", "c", "d", "e", "f"}
DigitChar == <<"0", "1", "2", "3", "4", "5", "6", "7", "8", "9">>

StripLeadingZeros(digits) ==
    LET kept == {k \in DOMAIN digits : digits[k] # "0"}
    IN  IF kept = {} THEN <<>>
        ELSE SubSeq(digits, CHOOSE k \in kept : \A other \in kept : k <= other,
                    Len(digits))
StripTrailingZeros(digits) ==
    LET kept == {k \in DOMAIN digits : digits[k] # "0"}
    IN  IF kept = {} THEN <<>>
        ELSE SubSeq(digits, 1, CHOOSE k \in kept : \A other \in kept : k >= other)

(* 0.a < 0.b for two digit strings that do not end in 0 *)
FractionLess(a, b) ==
    LET differ == {k \in DOMAIN a \cap DOMAIN b : a[k] # b[k]}
        first == CHOOSE k \in differ : \A other \in differ : k <= other
    IN  IF differ = {} THEN Len(a) < Len(b)
        ELSE HexDigitValue[a[first]] < HexDigitValue[b[first]]

(* a double, by the numeral it was read from: 0.digits times 10 (kind        *)
(* "decimal") or 2 (kind "hexadecimal", digits in base 16) to the exponent,  *)
(* digits with no zero at either end; zero has no digit                      *)
Double(kind, negative, digits, exponent) ==
    [kind |-> kind, negative |-> negative, digits |-> digits,
     exponent |-> exponent]
StodReturns(value) == [threw |-> FALSE, error |-> "none", value |-> value]
StodThrows(error) ==
    [threw |-> TRUE, error |-> error, value |-> Double("decimal", FALSE, <<>>, 0)]

(* twice, and five times, the whole number written digits in base ten *)
TimesTwo(digits) ==
    LET n == Len(digits)
        carry(k) == IF k <= n /\ DigitValue[digits[k]] >= 5 THEN 1 ELSE 0
        twice == [k \in 1 .. n |->
                     DigitChar[((2 * DigitValue[digits[k]]) % 10)
                                  + carry(k + 1) + 1]]
    IN  IF carry(1) = 1 THEN <<"1">> \o twice ELSE SubSeq(twice, 1, n)
TimesFive(digits) ==
    LET n == Len(digits)
        d(k) == IF k >= 1 /\ k <= n THEN DigitValue[digits[k]] ELSE 0
        half == [k \in 1 .. n + 1 |->
                    DigitChar[((d(k) + 10 * (d(k - 1) % 2)) \div 2) + 1]]
    IN  SubSeq(half, IF d(1) < 2 THEN 2 ELSE 1, n + 1)

(* digits times factor^n, for the factors 2 and 5 *)
RECURSIVE Times(_, _, _)
Times(digits, factor, n) ==
    IF n = 0 THEN digits
    ELSE IF n = 1
    THEN (IF factor = 2 THEN TimesTwo(digits) ELSE TimesFive(digits))
    ELSE LET half == Times(digits, factor, n \div 2)
         IN  IF Len(half) > 0 THEN Times(half, factor, n - (n \div 2))
             ELSE <<>>

(* digits divided by 5^n when that is a whole number, else no digit: a       *)
(* number that ends in 0 or 5 is divided by 5 by doubling it and dropping    *)
(* the 0 it then ends in                                                     *)
RECURSIVE DividedByFive(_, _)
DividedByFive(digits, n) ==
    IF n = 0 \/ digits = <<>> THEN digits
    ELSE IF n = 1
    THEN (IF digits[Len(digits)] \in {"0", "5"}
          THEN SubSeq(TimesTwo(digits), 1,
                      Len(digits) + (IF DigitValue[digits[1]] >= 5 THEN 0
                                     ELSE -1))
          ELSE <<>>)
    ELSE LET half == DividedByFive(digits, n \div 2)
         IN  IF Len(half) > 0 THEN DividedByFive(half, n - (n \div 2))
             ELSE <<>>

(* the bounds of the range of a double, each 0.digits times a power of ten.  *)
(* A value rounds to the nearest of the numbers with 53 significant bits,    *)
(* to the even one at a tie, so the values that round to 2^1024 or above are *)
(* those from 2^1024 - 2^970 = (2^54 - 1) * 2^970 on, and the values that    *)
(* round to DBL_MIN = 2^-1022 or above are those from 2^-1022 - 2^-1076 =    *)
(* (2^54 - 1) * 5^1076 / 10^1076 on                                          *)
MantissaOnes ==
    <<"1", "8", "0", "1", "4", "3", "9", "8", "5", "0", "9", "4", "8", "1",
      "9", "8", "3">>
OverflowDigits == Times(MantissaOnes, 2, 970)
UnderflowDigits == Times(MantissaOnes, 5, 1076)

(* the exponent part of a numeral after its mantissa: the letter, an         *)
(* optional sign and at least one digit, else no exponent is read.  An       *)
(* exponent beyond 10^9 either way is read as 10^9, which decides the range  *)
(* in the same way for every numeral of fewer than 10^9 - 1100 characters    *)
ExponentPart(rest, letter) ==
    LET signed == Len(rest) >= 2 /\ rest[2] \in {"+", "-"}
        digits == IF signed THEN Drop(rest, 2) ELSE Drop(rest, 1)
    IN  IF rest # <<>> /\ toupper(rest[1]) = letter
           /\ digits # <<>> /\ Head(digits) \in DOMAIN DigitValue
        THEN LET number == DigitsValue(Span(digits, DOMAIN DigitValue), 0,
                                       signed /\ rest[2] = "-")
             IN  IF ~number.range \/ number.value > 1000000000
                    \/ number.value < -1000000000
                 THEN (IF signed /\ rest[2] = "-" THEN -1000000000
                       ELSE 1000000000)
                 ELSE number.value
        ELSE 0

(* 2^53 in base ten *)
TwoTo53 ==
    <<"9", "0", "0", "7", "1", "9", "9", "2", "5", "4", "7", "4", "0", "9",
      "9", "2">>

(* the whole number written quotient is 4k + 1 and 2^53 or above (no digit:  *)
(* not a whole number)                                                       *)
RoundBitAlone(quotient) ==
    /\ Len(quotient) >= Len(TwoTo53)
    /\ Len(quotient) > Len(TwoTo53) \/ ~FractionLess(quotient, TwoTo53)
    /\ (10 * DigitValue[quotient[Len(quotient) - 1]]
           + DigitValue[quotient[Len(quotient)]]) % 4 = 1

(* strtod on the decimal value 0.digits * 10^exponent: zero has no digit;    *)
(* ERANGE, on which stod throws, is set when the value rounds to infinity,   *)
(* and when it rounds to less than DBL_MIN and strtod finds it inexact.      *)
(* Below DBL_MIN the exact values are the multiples of 2^-1074: with p =     *)
(* Len(digits) - exponent decimal places that is p <= 1074 and 5^p divides   *)
(* digits.  strtod (round_and_return of glibc) takes the 53 highest bits of  *)
(* the value and, when it shifts them down by one to the subnormal exponent, *)
(* does not look at the bit right below them: from 2^-1023 up a value        *)
(* k * 2^-1074 + 2^-1076 passes for exact too, which is p = 1076 and         *)
(* digits / 5^1076 = 4k + 1                                                  *)
DecimalValue(negative, digits, exponent) ==
    IF digits = <<>> THEN StodReturns(Double("decimal", negative, <<>>, 0))
    ELSE IF exponent > Len(OverflowDigits)
            \/ (exponent = Len(OverflowDigits)
                /\ ~FractionLess(digits, OverflowDigits))
    THEN StodThrows("out_of_range")
    ELSE IF /\ \/ exponent < Len(UnderflowDigits) - 1076
               \/ /\ exponent = Len(UnderflowDigits) - 1076
                  /\ FractionLess(digits, UnderflowDigits)
            /\ \/ Len(digits) - exponent > 1076
               \/ Len(digits) - exponent = 1075
               \/ /\ Len(digits) - exponent <= 1074
                  /\ DividedByFive(digits, Len(digits) - exponent) = <<>>
               \/ /\ Len(digits) - exponent = 1076
                  /\ ~RoundBitAlone(DividedByFive(digits, 1076))
    THEN StodThrows("out_of_range")
    ELSE StodReturns(Double("decimal", negative, digits, exponent))

(* the decimal form: digits, an optional point and digits, an optional       *)
(* exponent                                                                  *)
DecimalNumeral(body, negative) ==
    LET whole == Span(body, DOMAIN DigitValue)
        after == Drop(body, Len(whole))
        pointed == after # <<>> /\ Head(after) = "."
        fraction == IF pointed THEN Span(Tail(after), DOMAIN DigitValue) ELSE <<>>
        rest == IF pointed THEN Drop(after, 1 + Len(fraction)) ELSE after
        all == whole \o fraction
        significant == StripLeadingZeros(all)
        point == Len(whole) - (Len(all) - Len(significant))
    IN  DecimalValue(negative, StripTrailingZeros(significant),
                     point + ExponentPart(rest, "E"))

(* the number of bits of a hexadecimal digit above its lowest and below its  *)
(* highest set bit                                                           *)
BitLength(h) == IF h >= 8 THEN 4 ELSE IF h >= 4 THEN 3 ELSE IF h >= 2 THEN 2 ELSE 1
TrailingZeroBits(h) ==
    IF h % 2 = 1 THEN 0 ELSE IF h % 4 = 2 THEN 1 ELSE IF h % 8 = 4 THEN 2 ELSE 3

(* the k-th bit of the hexadecimal digits, counted from the highest bit of   *)
(* the first digit                                                           *)
HexBit(digits, k) ==
    (HexDigitValue[digits[((k - 1) \div 4) + 1]]
        \div (2 ^ (3 - ((k - 1) % 4)))) % 2

(* the n bits from the highest set bit of digits down are all ones *)
LeadingOnes(digits, n) ==
    LET skipped == 4 - BitLength(HexDigitValue[digits[1]])
    IN  /\ 4 * Len(digits) >= skipped + n
        /\ \A k \in skipped + 1 .. skipped + n : HexBit(digits, k) = 1

(* strtod on the hexadecimal value 0.digits * 2^exponent, whose highest set  *)
(* bit is 2^top and lowest 2^low.  It rounds to infinity when top is 1024 or *)
(* above, and when top is 1023 and the 54 bits from it down are ones; it     *)
(* rounds to less than DBL_MIN when top is below -1022, unless top is -1023  *)
(* and the 54 bits from it down are ones, and ERANGE is then set when strtod *)
(* finds it inexact.  strtod (round_and_return of glibc) takes the 53 bits   *)
(* from 2^top down and, when it shifts them down to the subnormal exponent,  *)
(* does not look at the bit right below them, 2^(top - 53): the value is     *)
(* found inexact when top is below -1074 or another bit below 2^-1074 is set *)
HexValue(negative, digits, exponent) ==
    IF digits = <<>> THEN StodReturns(Double("decimal", negative, <<>>, 0))
    ELSE LET top == exponent - 5 + BitLength(HexDigitValue[digits[1]])
             low == exponent - 4 * Len(digits)
                       + TrailingZeroBits(HexDigitValue[digits[Len(digits)]])
         IN  IF top >= 1024 \/ (top = 1023 /\ LeadingOnes(digits, 54))
             THEN StodThrows("out_of_range")
             ELSE IF /\ top < -1022
                     /\ ~(top = -1023 /\ LeadingOnes(digits, 54))
                     /\ low < -1074
                     /\ \/ top < -1074
                        \/ \E k \in 1 .. 4 * Len(digits) :
                              /\ HexBit(digits, k) = 1
                              /\ exponent - k < -1074
                              /\ exponent - k # top - 53
             THEN StodThrows("out_of_range")
             ELSE StodReturns(Double("hexadecimal", negative, digits, exponent))

(* the hexadecimal form after 0x: hexadecimal digits, an optional point and  *)
(* digits, an optional binary exponent                                       *)
HexNumeral(body, negative) ==
    LET whole == Span(body, HexDigits)
        after == Drop(body, Len(whole))
        pointed == after # <<>> /\ Head(after) = "."
        fraction == IF pointed THEN Span(Tail(after), HexDigits) ELSE <<>>
        rest == IF pointed THEN Drop(after, 1 + Len(fraction)) ELSE after
        all == [k \in 1 .. Len(whole) + Len(fraction) |->
                    toupper((whole \o fraction)[k])]
        significant == StripLeadingZeros(all)
        point == Len(whole) - (Len(all) - Len(significant))
    IN  HexValue(negative, StripTrailingZeros(significant),
                 4 * point + ExponentPart(rest, "P"))

(* std::stod (strtod in the C locale): white space is skipped, then an       *)
(* optional sign, then infinity, a NaN, a hexadecimal or a decimal numeral;  *)
(* what follows the numeral is ignored; throws std::invalid_argument when    *)
(* there is no numeral and std::out_of_range when strtod reports ERANGE      *)
stod(str) ==
    LET text == SkipWhitespace(str)
        signed == text # <<>> /\ Head(text) \in {"+", "-"}
        negative == signed /\ Head(text) = "-"
        body == IF signed THEN Tail(text) ELSE text
        IsDigit(k) == Len(body) >= k /\ body[k] \in DOMAIN DigitValue
        IsHexDigit(k) == Len(body) >= k /\ body[k] \in HexDigits
    IN  IF StartsWith(body, <<"I", "N", "F">>)
        THEN StodReturns(Double("infinity", negative, <<>>, 0))
        ELSE IF StartsWith(body, <<"N", "A", "N">>)
        THEN StodReturns(Double("nan", negative, <<>>, 0))
        ELSE IF StartsWith(body, <<"0", "X">>)
                /\ (IsHexDigit(3) \/ (Len(body) >= 3 /\ body[3] = "." /\ IsHexDigit(4)))
        THEN HexNumeral(Drop(body, 2), negative)
        ELSE IF IsDigit(1) \/ (body # <<>> /\ body[1] = "." /\ IsDigit(2))
        THEN DecimalNumeral(body, negative)
        ELSE StodThrows("invalid_argument")

(* the Motif built from the trimmed pattern and what std::stod made of the  *)
(* three score fields                                                        *)
MotifFromFields(pattern, scores) ==
    IF \E k \in 1 .. 3 : scores[k].threw
    THEN [threw |-> TRUE, pattern |-> <<>>, scores |-> <<>>]
    ELSE [threw |-> FALSE, pattern |-> pattern,
          scores |-> [k \in 1 .. 3 |-> scores[k].value]]

(* DNAParser::parseMotifLine: throws on fewer than four fields and when a    *)
(* score is not a number                                                     *)
parseMotifLine(line) ==
    LET fields == split(line, "\t")
    IN  IF Len(fields) < 4
        THEN [threw |-> TRUE, pattern |-> <<>>, scores |-> <<>>]
        ELSE MotifFromFields(trim(fields[1]),
                             [k \in 1 .. 3 |-> stod(fields[k + 1])])

(* the body of the loop of parseMotifs once parseMotifLine has returned the *)
(* motif or thrown                                                           *)
PushMotif(loop, motif) ==
    IF motif.threw
    THEN [loop EXCEPT !.stats = @ \cup {"motifs_parse_errors"}]
    ELSE [loop EXCEPT
             !.motifs = Append(@, [pattern |-> motif.pattern,
                                   score1 |-> motif.scores[1],
                                   score2 |-> motif.scores[2],
                                   score3 |-> motif.scores[3]]),
             !.stats = @ \cup {"motifs_parsed"}]

(* the loop of parseMotifs over lines[i..] *)
RECURSIVE ParseMotifLines(_, _, _)
ParseMotifLines(lines, i, loop) ==
    IF i > Len(lines) THEN loop
    ELSE LET trimmed_line == trim(lines[i])
         IN  IF trimmed_line = <<>> \/ trimmed_line[1] = "#"
             THEN ParseMotifLines(lines, i + 1, loop)
             ELSE ParseMotifLines(lines, i + 1,
                     PushMotif(loop, parseMotifLine(trimmed_line)))

(* the return of parseMotifs after its loop *)
MotifsRead(loop) ==
    [has_value |-> TRUE, error |-> "none", value |-> loop.motifs,
     stats |-> loop.stats \cup {"files_closed"}]

(* DNAParser::parseMotifs *)
parseMotifs(file, content, stats_) ==
    IF ReadFileError(file) # "none"
    THEN [has_value |-> FALSE, error |-> ReadFileError(file), value |-> <<>>,
          stats |-> stats_]
    ELSE MotifsRead(ParseMotifLines(splitLines(content), 1,
                       [motifs |-> <<>>,
                        stats |-> stats_ \cup {"files_opened"}]))

(* the lines files are written from *)
LinePool ==
    { <<">", "s", "\t", "m">>, <<">", "t">>, <<" ", ">", "u", "\t">>,
      <<"A", "T">>, <<"g", "c", "\r">>, <<"A", " ", "C">>, <<"A", "N">>,
      <<>>, <<" ">> }

(* the lines written one after the other, each ended by a newline *)
RECURSIVE WriteLines(_)
WriteLines(lines) ==
    IF lines = <<>> THEN <<>>
    ELSE Head(lines) \o <<"\n">> \o WriteLines(Tail(lines))

(* the lines motif files are written from *)
MotifLinePool ==
    { <<"A", "T", "\t", "1", "\t", "2", ".", "5", "\t", "-", "3">>,
      <<"R", "W", "\t", "1", "\t", "x", "\t", "3">>,
      <<"#", "c">>, <<"A", "T", "\t", "1">>,
      <<"A", "T", "\t", "1", "e", "9", "9", "9", "\t", "1", "\t", "1">>,
      <<"R", "W", "\t", "0", "x", "1", ".", "0", "0", "0", "0", "0", "0", "0",
        "0", "0", "0", "0", "0", "0", "8", "p", "-", "1", "0", "2", "3", "\t",
        ".", "5", "\t", "1", "e", "3", "0", "8">> }

(* a parser just constructed and a path: a file of sequence lines, a file of *)
(* motif lines, or a path that cannot be read                                *)
ParserInit ==
    \E file \in FileKinds :
    \E pool \in {LinePool, MotifLinePool} :
    \E n \in 0 .. MaxLines : \E lines \in [1 .. n -> pool] :
        /\ file # "regular" => n = 0
        /\ parser_call = [file |-> file, content |-> WriteLines(lines),
                          function |-> "none", returned |-> <<>>,
                          stats_ |-> {}]

(* the parser after a call: what the call returned and the statistics it   *)
(* left                                                                      *)
ParserCall(function, returned) ==
    [parser_call EXCEPT !.function = function, !.returned = returned,
                        !.stats_ = returned.stats]

ParseChIPSequencesCall ==
    /\ parser_call' =
          ParserCall("parseChIPSequences",
                     parseChIPSequences(parser_call.file, parser_call.content,
                                        parser_call.stats_))
    /\ UNCHANGED <<partVars, mpiVars, ompVars, lifeVars, partition_call,
                   codes_call, kernel_call, main_call>>

ParseMotifsCall ==
    /\ parser_call' =
          ParserCall("parseMotifs",
                     parseMotifs(parser_call.file, parser_call.content,
                                 parser_call.stats_))
    /\ UNCHANGED <<partVars, mpiVars, ompVars, lifeVars, partition_call,
                   codes_call, kernel_call, main_call>>

(* DNAParser::resetStatistics *)
ResetStatisticsCall ==
    /\ parser_call' = [parser_call EXCEPT !.function = "resetStatistics",
                                          !.returned = <<>>, !.stats_ = {}]
    /\ UNCHANGED <<partVars, mpiVars, ompVars, lifeVars, partition_call,
                   codes_call, kernel_call, main_call>>

ParserNext == ParseChIPSequencesCall \/ ParseMotifsCall \/ ResetStatisticsCall

-----------------------------------------------------------------------------
(* the parts of the state a specification does not use *)
JobUnused ==
    /\ size_ = 1 /\ eagerLimit = 0
    /\ all_sequences = <<>> /\ motifs = <<>> /\ pc = <<>> /\ loc = <<>>
    /\ chan = <<>> /\ bcastLog = <<>> /\ bcastSeen = <<>>
    /\ local_sequences = <<>> /\ local_motifs = <<>> /\ local_results = <<>>
    /\ all_results = <<>> /\ comm_stats_ = <<>> /\ runs = <<>>
    /\ mpiError = FALSE
PartitionUnused ==
    total_sequences = 0 /\ total_processes = 1 /\ parts = <<>>
BatchUnused ==
    /\ omp_threads = 1 /\ batch_sequences = <<>> /\ batch_motifs = <<>>
    /\ batch = "idle" /\ next_iteration = 0 /\ thread = <<>> /\ thread_i = <<>>
    /\ thread_result = <<>> /\ thread_results = <<>> /\ batch_results = <<>>
    /\ critical_owner = 0 /\ stats_writers = {} /\ stats_raced = {}
    /\ finder_stats = "empty" /\ processor_stats = {}

LifecycleUnused ==
    /\ mpi_runtime = "not_started" /\ runtime_starts = 0
    /\ runtime_teardowns = 0 /\ late_operations = 0
    /\ process_aborted = FALSE /\ objects = <<>> /\ api_calls = 0
    /\ last_call = <<>>

OtherCallsUnused == kernel_call = <<>> /\ main_call = <<>> /\ parser_call = <<>>
CallsUnused == partition_call = <<>> /\ codes_call = <<>> /\ OtherCallsUnused

(* the initial states of each specification *)
InitPartition ==
    PartitionInit /\ JobUnused /\ BatchUnused /\ LifecycleUnused /\ CallsUnused
InitScatter ==
    ScatterInit /\ PartitionUnused /\ BatchUnused /\ LifecycleUnused /\ CallsUnused
InitBroadcast ==
    BroadcastInit /\ PartitionUnused /\ BatchUnused /\ LifecycleUnused /\ CallsUnused
InitGather ==
    GatherInit /\ PartitionUnused /\ BatchUnused /\ LifecycleUnused /\ CallsUnused
InitJob ==
    JobInit /\ PartitionUnused /\ BatchUnused /\ LifecycleUnused /\ CallsUnused
InitBatch ==
    BatchInit /\ PartitionUnused /\ JobUnused /\ LifecycleUnused /\ CallsUnused
InitLifecycle ==
    LifecycleInit /\ PartitionUnused /\ JobUnused /\ BatchUnused /\ CallsUnused

InitJobFailure ==
    JobFailureInit /\ PartitionUnused /\ BatchUnused /\ LifecycleUnused /\ CallsUnused
InitJobResults ==
    JobResultsInit /\ PartitionUnused /\ BatchUnused /\ LifecycleUnused /\ CallsUnused

(* the ranks are about to call one of the three operations *)
InitCollectives == InitScatter \/ InitBroadcast \/ InitGather

(* the same, the workers passing lists of their own *)
InitWorkerArgs ==
    /\ ScatterArgsInit \/ BroadcastArgsInit \/ GatherInit
    /\ PartitionUnused /\ BatchUnused /\ LifecycleUnused /\ CallsUnused

InitPartitionCall ==
    /\ PartitionCallInit /\ codes_call = <<>> /\ OtherCallsUnused
    /\ PartitionUnused /\ JobUnused /\ BatchUnused /\ LifecycleUnused

InitCodes ==
    /\ CodesCallInit /\ partition_call = <<>> /\ OtherCallsUnused
    /\ PartitionUnused /\ JobUnused /\ BatchUnused /\ LifecycleUnused

InitBarrier ==
    BarrierInit /\ PartitionUnused /\ BatchUnused /\ LifecycleUnused /\ CallsUnused

InitMain ==
    /\ MainInit
    /\ partition_call = <<>> /\ codes_call = <<>>
    /\ kernel_call = <<>> /\ parser_call = <<>>
    /\ PartitionUnused /\ JobUnused /\ BatchUnused /\ LifecycleUnused

InitParser ==
    /\ ParserInit
    /\ partition_call = <<>> /\ codes_call = <<>>
    /\ kernel_call = <<>> /\ main_call = <<>>
    /\ PartitionUnused /\ JobUnused /\ BatchUnused /\ LifecycleUnused

InitPrefix ==
    /\ PrefixInit /\ partition_call = <<>> /\ OtherCallsUnused
    /\ PartitionUnused /\ JobUnused /\ BatchUnused /\ LifecycleUnused

InitAsync ==
    /\ AsyncInit
    /\ partition_call = <<>> /\ codes_call = <<>>
    /\ main_call = <<>> /\ parser_call = <<>>
    /\ PartitionUnused /\ JobUnused /\ BatchUnused /\ LifecycleUnused

InitFinder ==
    /\ FinderInit
    /\ partition_call = <<>> /\ codes_call = <<>>
    /\ main_call = <<>> /\ parser_call = <<>>
    /\ PartitionUnused /\ JobUnused /\ BatchUnused /\ LifecycleUnused

InitKernel ==
    /\ KernelInit
    /\ partition_call = <<>> /\ codes_call = <<>>
    /\ main_call = <<>> /\ parser_call = <<>>
    /\ PartitionUnused /\ JobUnused /\ BatchUnused /\ LifecycleUnused

SpecPartition == InitPartition /\ [][PartitionNext]_vars
SpecScatter == InitScatter /\ [][ScatterNext]_vars
SpecBroadcast == InitBroadcast /\ [][BroadcastNext]_vars
SpecGather == InitGather /\ [][GatherNext]_vars
SpecJob == InitJob /\ [][JobNext]_vars
SpecJobFailure == InitJobFailure /\ [][JobFailureNext]_vars
SpecJobResults == InitJobResults /\ [][JobNext]_vars
SpecAsync == InitAsync /\ [][AsyncNext]_vars
SpecPrefix == InitPrefix /\ [][PrefixNext]_vars
SpecCollectives == InitCollectives /\ [][CollectivesNext]_vars
SpecWorkerArgs == InitWorkerArgs /\ [][CollectivesNext]_vars
(* every rank that can take a step of its program eventually takes one *)
FairSpecJob == SpecJob /\ WF_vars(JobNext)
SpecBatch == InitBatch /\ [][BatchNext]_vars
SpecLifecycle == InitLifecycle /\ [][LifecycleNext]_vars
SpecPartitionCall == InitPartitionCall /\ [][PartitionCallNext]_vars
SpecCodes == InitCodes /\ [][CodesNext]_vars
SpecKernel == InitKernel /\ [][KernelNext]_vars
SpecFinder == InitFinder /\ [][FinderNext]_vars
SpecMain == InitMain /\ [][MainNext]_vars
SpecParser == InitParser /\ [][ParserNext]_vars
SpecBarrier == InitBarrier /\ [][BarrierNext]_vars
(* MPI completes a barrier every rank of the communicator has entered *)
FairSpecBarrier ==
    SpecBarrier /\ \A r \in 0 .. MaxSize - 1 : WF_vars(SynchronizeReturn(r))

-----------------------------------------------------------------------------
(* Properties *)

RECURSIVE SumCounts(_)
SumCounts(ps) == IF ps = <<>> THEN 0 ELSE Head(ps).count + SumCounts(Tail(ps))

(* the partition formula of the data model: base = N div P, extra = N mod P *)
PartitionStart(N, r, P) == r * (N \div P) + Min(r, N % P)
PartitionCount(N, r, P) == (N \div P) + (IF r < N % P THEN 1 ELSE 0)

(* C1: the partitions of ranks 0..P-1 start at 0, each starts where the      *)
(* previous one ends, and their counts sum to N; N=11, P=3 gives counts      *)
(* 4,4,3 at starts 0,4,8.                                                    *)
C1_PartitionCoversOnce ==
    /\ \A k \in 1 .. Len(parts) :
          parts[k].start = IF k = 1 THEN 0
                           ELSE parts[k - 1].start + parts[k - 1].count
    /\ \A j, k \in 1 .. Len(parts) :
          j < k => parts[j].start + parts[j].count <= parts[k].start
    /\ Len(parts) = total_processes => SumCounts(parts) = total_sequences
    /\ (Len(parts) = 3 /\ total_processes = 3 /\ total_sequences = 11)
          => parts = << [start |-> 0, count |-> 4], [start |-> 4, count |-> 4],
                        [start |-> 8, count |-> 3] >>

C1_Witness ==
    Len(parts) = 3 /\ total_processes = 3 /\ total_sequences = 11

(* rank r has returned from distributeSequences *)
ScatterReturned(r) == pc[r] = "broadcast"

(* C2: after the scatter rank r holds the coordinator's items                *)
(* [start(r), start(r)+count(r)) unchanged and in order, and the slices of   *)
(* all ranks concatenated in rank order are the coordinator's list.          *)
C2_ScatterSlices ==
    LET N == Len(all_sequences[0])
    IN  /\ \A r \in Ranks :
              ScatterReturned(r) =>
                 local_sequences[r] =
                    [i \in 1 .. PartitionCount(N, r, size_) |->
                        all_sequences[0][PartitionStart(N, r, size_) + i]]
        /\ (\A r \in Ranks : ScatterReturned(r)) =>
              Flatten([k \in 1 .. size_ |-> local_sequences[k - 1]])
                 = all_sequences[0]

C2_Witness ==
    /\ size_ = 3 /\ Len(all_sequences[0]) = 3
    /\ \A r \in Ranks : ScatterReturned(r) /\ Len(local_sequences[r]) = 1
    /\ local_sequences[1][1].metadata = << <<"m">> >>

(* what gather carries of a result *)
Carried(result) ==
    <<result.motif_pattern, result.match_count, result.frequency>>
CarriedList(results) == [i \in DOMAIN results |-> Carried(results[i])]

(* rank r has returned from gatherResults *)
GatherReturned(r) == pc[r] = "idle" /\ runs[r] >= 1

(* C3: the list gatherResults returns on the coordinator is its own results, *)
(* then rank 1's, then rank 2's, ..., each block in the order its rank held  *)
(* it, and as long as all the local lists together.                          *)
C3_GatherOrder ==
    GatherReturned(0) =>
        /\ CarriedList(all_results[0]) =
              Flatten([k \in 1 .. size_ |-> CarriedList(local_results[k - 1])])
        /\ SubSeq(all_results[0], 1, Len(local_results[0])) = local_results[0]

C3_Witness ==
    /\ size_ = 3 /\ GatherReturned(0)
    /\ \A r \in Ranks : Len(local_results[r]) = 2
    /\ Len(all_results[0]) = 6

(* rank r has returned from broadcastMotifs *)
BroadcastReturned(r) == pc[r] = "compute"

(* C4: every rank returns from broadcastMotifs the coordinator's list:       *)
(* same length, order, patterns and scores.                                  *)
C4_BroadcastCopies ==
    \A r \in Ranks : BroadcastReturned(r) => local_motifs[r] = motifs[0]

C4_Witness ==
    /\ size_ = 3 /\ Len(motifs[0]) = 2
    /\ \A r \in Ranks : BroadcastReturned(r)
    /\ motifs[1] # motifs[0]

(* every rank has returned from all its processMotifs calls *)
AllReturned == \A r \in Ranks : pc[r] = "idle" /\ runs[r] = MaxRuns

(* a peer failed: its process was killed in the thread-parallel batch, or an *)
(* exception or an MPI error ended its processMotifs                         *)
PeerFailed == \E r \in Ranks : pc[r] \in {"killed", "failed", "aborted"}

(* a rank was killed in its thread-parallel batch *)
RankKilledInBatch == \E r \in Ranks : pc[r] = "killed"

(* C5: when every rank runs scatter, broadcast, gather in this order and no  *)
(* peer fails, every rank returns from every call, also with sends that      *)
(* block until matched.                                                      *)
C5_AllRanksReturn == <>(AllReturned \/ PeerFailed)

C5_Witness == AllReturned /\ size_ = MaxJobLoad - 1 /\ eagerLimit = 0

(* rank r has returned from processMotifs *)
ProcessReturned(r) == pc[r] = "idle" /\ runs[r] >= 1

(* C6 as stated: processMotifs returns one result per input motif. *)
C6_OneResultPerMotif ==
    \A r \in Ranks : ProcessReturned(r) => Len(all_results[r]) = Len(motifs[r])

(* C6 amended: on the coordinator of a P-rank job processMotifs returns      *)
(* P times as many results as the coordinator loaded motifs, and on every    *)
(* other rank it returns the empty list; on every call of a series.          *)
C6_ResultsPerRank ==
    \A r \in Ranks :
        ProcessReturned(r) =>
            Len(all_results[r]) =
                IF isMaster(r) THEN size_ * Len(motifs[0]) ELSE 0

C6_Witness ==
    /\ size_ = 2 /\ Len(motifs[0]) = 1
    /\ \A r \in Ranks : ProcessReturned(r) /\ runs[r] = 2
    /\ Len(all_results[0]) = 2

(* C7: the thread-parallel batch returns, in some order, exactly the results *)
(* the sequential batch computes: one per pattern, each with the same        *)
(* pattern, match_count, frequency and match list.                           *)
C7_ParallelEqualsSequential ==
    batch = "returned" =>
        LET expected == findMotifs(batch_sequences, batch_motifs)
        IN  /\ Len(batch_results) = Len(batch_motifs)
            /\ \E p \in Permutations(1 .. Len(expected)) :
                  \A n \in 1 .. Len(expected) : batch_results[n] = expected[p[n]]

C7_Witness ==
    /\ batch = "returned" /\ omp_threads = 2
    /\ Len(batch_sequences) = 2 /\ Len(batch_motifs) = 2
    /\ batch_results[1].motif_pattern = batch_motifs[2].pattern
    /\ batch_results[1].match_count = 1 /\ Len(batch_results[1].matches) = 1

(* C8: the threads of a batch share no mutable state but the output list,    *)
(* which is appended to only inside the critical section: no location is     *)
(* written by one thread while another thread accesses it.                   *)
C8_NoSharedWrites ==
    /\ Cardinality(stats_writers) <= 1
    /\ Cardinality({t \in Threads : thread[t] = "critical"}) <= 1

(* C9: on an object that was initialized successfully, the finalize calls    *)
(* made since (explicit ones and the destructor's) issue MPI_Finalize        *)
(* exactly once in total, and after the first of them the object and its     *)
(* manager stay unmarked.                                                    *)
C9_FinalizeIdempotent ==
    \A o \in Objects :
        objects[o].initialized_once =>
            IF objects[o].finalize_calls = 0
            THEN objects[o].releases = 0
            ELSE /\ objects[o].releases = 1
                 /\ ~objects[o].initialized_
                 /\ objects[o].manager # "initialized"

C9_Witness ==
    \E o \in Objects :
        /\ objects[o].kind = "processor" /\ objects[o].life = "destroyed"
        /\ objects[o].initialized_once
        /\ objects[o].finalize_calls = 3 /\ objects[o].releases = 1
        /\ runtime_teardowns = 1 /\ ~process_aborted

(* a processMotifs call issued its ten broadcasts of three motifs on a       *)
(* runtime that had been torn down, and returned                             *)
LateProcessMotifs ==
    /\ last_call.operation = "processMotifs" /\ last_call.outcome = "returned"
    /\ mpi_runtime = "finalized" /\ late_operations >= 10

(* printResults or saveResults on a processor never initialized killed the   *)
(* process                                                                   *)
ReportKilled ==
    /\ last_call.operation \in {"printResults", "saveResults"}
    /\ last_call.outcome = "killed" /\ process_aborted

(* C10: in one process the runtime is started at most once, torn down at     *)
(* most once, and no runtime operation is issued while it is not up.         *)
C10_RuntimeOnceOnly ==
    /\ runtime_starts <= 1
    /\ runtime_teardowns <= 1
    /\ late_operations = 0

(* C11: once a finalize call has torn a ParallelProcessor down, no later     *)
(* call marks it initialized again, so processMotifs is never accepted on    *)
(* it afterwards.                                                            *)
C11_NoReturnAfterFinalize ==
    \A o \in Objects :
        (objects[o].kind = "processor" /\ objects[o].finalized) =>
            ~objects[o].initialized_

(* the runtime as the process sees it *)
RuntimeState ==
    <<mpi_runtime, runtime_starts, runtime_teardowns, late_operations,
      process_aborted>>

(* this step is the client's call of operation on object o *)
CallStep(o, operation) ==
    /\ api_calls' = api_calls + 1
    /\ last_call'.object = o
    /\ last_call'.operation = operation

(* C12: processMotifs called on a ParallelProcessor that is not initialized  *)
(* (never initialized, initialize failed, or finalized) ends with the        *)
(* not-initialized error before any input is loaded and before any runtime   *)
(* operation is issued, and changes neither the object nor the runtime.      *)
C12_ProcessNotInitialized ==
    [][\A o \in Objects :
          (CallStep(o, "processMotifs") /\ ~objects[o].initialized_) =>
              /\ last_call'.outcome = "not_initialized"
              /\ ~last_call'.loaded
              /\ ~last_call'.communicated
              /\ objects' = objects
              /\ RuntimeState' = RuntimeState]_vars

C12_Witness ==
    /\ last_call.operation = "processMotifs"
    /\ last_call.outcome = "not_initialized"
    /\ objects[last_call.object].finalized
    /\ \E n \in Objects :
          /\ n # last_call.object
          /\ objects[n].kind = "processor"
          /\ ~objects[n].initialized_once

(* C13: when MPI_Init fails, initialize returns false (it neither throws nor *)
(* ends the process), the object and its manager stay unmarked and the       *)
(* runtime is untouched; and finalize or the destructor of an object that    *)
(* was never initialized successfully issues no MPI_Finalize.                *)
C13_FailedStartIsQuiet ==
    [][\A o \in Objects :
          /\ (/\ CallStep(o, "initialize")
              /\ mpi_runtime = "not_started"
              /\ mpi_runtime' = "not_started") =>
                 /\ last_call'.outcome = "false"
                 /\ ~objects'[o].initialized_
                 /\ objects'[o].manager # "initialized"
                 /\ RuntimeState' = RuntimeState
          /\ (/\ CallStep(o, "finalize") \/ CallStep(o, "destroy")
              /\ ~objects[o].initialized_once) =>
                 /\ last_call'.outcome = "returned"
                 /\ runtime_teardowns' = runtime_teardowns
                 /\ RuntimeState' = RuntimeState]_vars

C13_Witness ==
    /\ last_call.operation = "destroy"
    /\ objects[last_call.object].kind = "processor"
    /\ ~objects[last_call.object].initialized_once
    /\ \E n \in Objects :
          /\ objects[n].kind = "processor"
          /\ objects[n].manager = "idle"
          /\ ~objects[n].initialized_once
          /\ objects[n].finalize_calls > 0
    /\ mpi_runtime = "not_started"
    /\ runtime_teardowns = 0

(* the original reading of C14: on every rank the list gatherResults returns *)
(* contains the rank's own local results and is at least as long as the      *)
(* local list.                                                               *)
C14_EveryRankKeepsOwn ==
    \A r \in Ranks :
        GatherReturned(r) =>
            /\ Len(all_results[r]) >= Len(local_results[r])
            /\ \A i \in DOMAIN local_results[r] :
                  \E j \in DOMAIN all_results[r] :
                      Carried(all_results[r][j]) = Carried(local_results[r][i])

(* C14: on the coordinator the list gatherResults returns begins with the    *)
(* coordinator's own local results (pattern, match_count and frequency) and  *)
(* is at least as long as its local list; on every other rank the returned   *)
(* list is empty.                                                            *)
C14_CoordinatorKeepsOwn ==
    \A r \in Ranks :
        GatherReturned(r) =>
            IF isMaster(r)
            THEN /\ Len(all_results[r]) >= Len(local_results[r])
                 /\ \A i \in DOMAIN local_results[r] :
                       Carried(all_results[r][i]) = Carried(local_results[r][i])
            ELSE all_results[r] = <<>>

C14_Witness ==
    /\ size_ >= 2
    /\ \A r \in Ranks : GatherReturned(r)
    /\ Len(local_results[0]) >= 1 /\ Len(local_results[1]) >= 1
    /\ Len(all_results[0]) > Len(local_results[0])
    /\ all_results[1] = <<>>

(* the place in the coordinator's list where the block of rank r begins *)
BlockOffset(r) == Len(Flatten([k \in 1 .. r |-> local_results[k - 1]]))

(* C16: every result the coordinator decoded from a rank r >= 1 has the      *)
(* pattern (symbols and length), the match_count and the frequency of the    *)
(* result rank r held at that place of its local list, whatever the number   *)
(* of results and the pattern length, zero included.                         *)
C16_GatherRoundTrip ==
    GatherReturned(0) =>
        \A r \in Ranks \ {0} :
            \A i \in DOMAIN local_results[r] :
                /\ BlockOffset(r) + i <= Len(all_results[0])
                /\ LET decoded == all_results[0][BlockOffset(r) + i]
                       held == local_results[r][i]
                   IN  /\ decoded.motif_pattern = held.motif_pattern
                       /\ Len(decoded.motif_pattern) = Len(held.motif_pattern)
                       /\ decoded.match_count = held.match_count
                       /\ decoded.frequency = held.frequency

C16_Witness ==
    /\ size_ = 3 /\ GatherReturned(0)
    /\ local_results[1] = <<>>
    /\ Len(local_results[2]) = 2
    /\ local_results[2][1].motif_pattern = <<>>
    /\ local_results[2][2].motif_pattern # <<>>
    /\ Len(all_results[0]) = Len(local_results[0]) + 2

(* the original reading of C15: for a non-empty input list of N sequences    *)
(* the slice distributeSequences returns on each rank is non-empty, has at   *)
(* most N elements, and its records have a non-empty id and non-empty        *)
(* symbols.                                                                  *)
C15_EverySliceNonEmpty ==
    LET N == Len(all_sequences[0])
    IN  \A r \in Ranks :
            (ScatterReturned(r) /\ N >= 1) =>
                /\ Len(local_sequences[r]) >= 1
                /\ Len(local_sequences[r]) <= N
                /\ \A i \in DOMAIN local_sequences[r] :
                      /\ local_sequences[r][i].id # <<>>
                      /\ local_sequences[r][i].sequence # <<>>

(* C15: for a non-empty input list of N sequences on the coordinator, whose  *)
(* records have a non-empty id and non-empty symbols, the slice              *)
(* distributeSequences returns on rank r has at most N elements, is          *)
(* non-empty exactly when r < N, and its records have a non-empty id and     *)
(* non-empty symbols.                                                        *)
C15_SliceBounds ==
    LET N == Len(all_sequences[0])
    IN  \A r \in Ranks :
            (/\ ScatterReturned(r) /\ N >= 1
             /\ \A k \in DOMAIN all_sequences[0] :
                   /\ all_sequences[0][k].id # <<>>
                   /\ all_sequences[0][k].sequence # <<>>) =>
                /\ Len(local_sequences[r]) <= N
                /\ (Len(local_sequences[r]) >= 1) <=> (r < N)
                /\ \A i \in DOMAIN local_sequences[r] :
                      /\ local_sequences[r][i].id # <<>>
                      /\ local_sequences[r][i].sequence # <<>>

C15_Witness ==
    /\ size_ = 3 /\ Len(all_sequences[0]) = 2
    /\ \A r \in Ranks : ScatterReturned(r)
    /\ Len(local_sequences[0]) = 1 /\ Len(local_sequences[1]) = 1
    /\ local_sequences[1][1].id = <<"s", "2">>
    /\ local_sequences[2] = <<>>

(* C17: calculateWorkDistribution on the degenerate sizes.  With N = 0 every *)
(* rank gets start 0 and count 0; with P > N rank r < N gets start r and     *)
(* count 1 and rank r >= N gets start N and count 0; with P = 1 rank 0 gets  *)
(* start 0 and count N.                                                      *)
C17_DegenerateSizes ==
    LET c == partition_call
    IN  (c.outcome = "returned" /\ c.P >= 1 /\ c.rank < c.P) =>
            /\ c.N = 0 => c.result = [start |-> 0, count |-> 0]
            /\ c.P > c.N =>
                  c.result = IF c.rank < c.N THEN [start |-> c.rank, count |-> 1]
                             ELSE [start |-> c.N, count |-> 0]
            /\ c.P = 1 => c.result = [start |-> 0, count |-> c.N]

C17_Witness ==
    partition_call = [N |-> 3, rank |-> 5, P |-> 10, outcome |-> "returned",
                      result |-> [start |-> 3, count |-> 0]]

(* C18: calculateWorkDistribution called with total_processes = 0 is        *)
(* rejected: it returns no partition and does not divide by zero.            *)
C18_ZeroPeersRejected ==
    (partition_call.outcome # "none" /\ partition_call.P = 0) =>
        partition_call.outcome = "rejected"

(* the elements of a list *)
Elements(list) == {list[k] : k \in DOMAIN list}

ConcreteNucleotides == {"A", "T", "G", "C"}
RecognizedCodes ==
    {"A", "T", "G", "C", "R", "Y", "S", "W", "K", "M", "B", "D", "H", "V", "N"}

(* C19: matches(n, c) is true exactly when the upper-cased n is among the    *)
(* nucleotides getNucleotides(c) returns; it is false when c is not one of   *)
(* the 15 codes in either case, and false when n is not A, T, G or C in      *)
(* either case, an ambiguity code such as N or R included.                   *)
C19_MatchesIsMembership ==
    LET n == codes_call.nucleotide
        c == codes_call.code
    IN  codes_call.function = "matches" =>
            /\ codes_call.matched <=>
                  (toupper(n) \in Elements(getNucleotides(c)))
            /\ toupper(c) \notin RecognizedCodes => ~codes_call.matched
            /\ toupper(n) \notin ConcreteNucleotides => ~codes_call.matched

C19_Witness ==
    /\ codes_call.function = "matches"
    /\ codes_call.nucleotide = "g" /\ codes_call.code = "r"
    /\ codes_call.matched

(* C20: isValidIUPACCode is true for exactly the 15 codes A, T, G, C, R, Y,  *)
(* S, W, K, M, B, D, H, V, N in either case; getNucleotides returns a list   *)
(* without duplicates of nucleotides among A, T, G, C, of length 1 for A, T, *)
(* G, C, 2 for R, Y, S, W, K, M, 3 for B, D, H, V, 4 for N, and the empty    *)
(* list for any other character.                                             *)
C20_CodeTable ==
    LET c == codes_call.code
        class == codes_call.nucleotides
    IN  /\ codes_call.function = "isValidIUPACCode" =>
              (codes_call.valid <=> toupper(c) \in RecognizedCodes)
        /\ codes_call.function = "getNucleotides" =>
              /\ Elements(class) \subseteq ConcreteNucleotides
              /\ Cardinality(Elements(class)) = Len(class)
              /\ Len(class) =
                    CASE toupper(c) \in {"A", "T", "G", "C"} -> 1
                      [] toupper(c) \in {"R", "Y", "S", "W", "K", "M"} -> 2
                      [] toupper(c) \in {"B", "D", "H", "V"} -> 3
                      [] toupper(c) = "N" -> 4
                      [] OTHER -> 0

C20_Witness ==
    /\ codes_call.function = "getNucleotides"
    /\ codes_call.code = "b"
    /\ codes_call.nucleotides = <<"C", "G", "T">>

(* the arguments of the latest kernel call *)
CalledSequence == kernel_call.args.sequences[kernel_call.args.seq_i]
CalledMotif == kernel_call.args.motifs[kernel_call.args.motif_i]

(* the window of |pattern| symbols at offset lies inside the sequence and    *)
(* every symbol of it matches its pattern symbol; offset is a mathematical   *)
(* integer, and an offset written -k stands for 2^64 - k, far outside        *)
WindowMatches(sequence, pattern, offset) ==
    /\ offset >= 0
    /\ offset + Len(pattern) <= Len(sequence)
    /\ \A i \in 0 .. Len(pattern) - 1 :
          matches(sequence[offset + i + 1], pattern[i + 1])

(* C21: matchesMotif(sequence, motif, start_pos) returns true exactly when   *)
(* start_pos + |motif| <= |sequence| as mathematical integers and every      *)
(* motif symbol matches the sequence symbol under it; for every size_t       *)
(* start_pos, those for which start_pos + |motif| wraps around included, it  *)
(* returns and reads no position outside the sequence.                       *)
C21_WindowInRange ==
    kernel_call.function = "matchesMotif" =>
        /\ kernel_call.returned.outcome = "returned"
        /\ ~kernel_call.returned.outside
        /\ kernel_call.returned.value <=>
              WindowMatches(CalledSequence.sequence, CalledMotif.pattern,
                            kernel_call.args.start_pos)

(* the offsets at which the pattern occurs in the sequence *)
Occurrences(sequence, pattern) ==
    {o \in 0 .. Len(sequence) - Len(pattern) :
        WindowMatches(sequence, pattern, o)}

StrictlyAscending(list) ==
    \A k \in 1 .. Len(list) - 1 : list[k] < list[k + 1]

(* C22: findMotifMatches returns exactly the offsets of [0, |sequence| -     *)
(* |motif|] at which the motif matches, strictly ascending (so without       *)
(* duplicates), and the empty list when the motif is longer than the         *)
(* sequence; findMotifInSequence returns one MotifMatch per such offset in   *)
(* the same order, with the sequence index it was given, the offset, and     *)
(* the |motif| symbols of the sequence at that offset.                       *)
C22_AllOffsets ==
    LET sequence == CalledSequence.sequence
        pattern == CalledMotif.pattern
        returned == kernel_call.returned
    IN  /\ kernel_call.function = "findMotifMatches" =>
              /\ Elements(returned) = Occurrences(sequence, pattern)
              /\ StrictlyAscending(returned)
              /\ Len(pattern) > Len(sequence) => returned = <<>>
        /\ kernel_call.function = "findMotifInSequence" =>
              /\ {returned[k].position : k \in DOMAIN returned}
                    = Occurrences(sequence, pattern)
              /\ StrictlyAscending([k \in DOMAIN returned |->
                                       returned[k].position])
              /\ \A k \in DOMAIN returned :
                    /\ returned[k].sequence_index = kernel_call.args.seq_i - 1
                    /\ returned[k].matched_sequence =
                          SubSeq(sequence, returned[k].position + 1,
                                 returned[k].position + Len(pattern))

C22_Witness ==
    /\ kernel_call.function = "findMotifInSequence"
    /\ CalledSequence.sequence = <<"A", "g", "A">>
    /\ CalledMotif.pattern = <<"R", "A">>
    /\ Len(kernel_call.returned) = 1
    /\ kernel_call.returned[1] =
          [sequence_index |-> 0, position |-> 1,
           matched_sequence |-> <<"g", "A">>]

(* the 0-based indices of the sequences in which the pattern occurs *)
MatchingSequences(sequences, pattern) ==
    {i \in 0 .. Len(sequences) - 1 :
        Occurrences(sequences[i + 1].sequence, pattern) # {}}

Lowest(offsets) == CHOOSE o \in offsets : \A other \in offsets : o <= other

(* C23: findSingleMotif counts the sequences that contain the motif, not the *)
(* occurrences: match_count is the number of such sequences, and matches     *)
(* holds exactly one record per such sequence, its lowest-offset occurrence, *)
(* in strictly ascending sequence index, so its length is match_count.       *)
C23_OnePerSequence ==
    kernel_call.function = "findSingleMotif" =>
        LET sequences == kernel_call.args.sequences
            pattern == CalledMotif.pattern
            returned == kernel_call.returned
            hits == MatchingSequences(sequences, pattern)
        IN  /\ returned.match_count = Cardinality(hits)
            /\ Len(returned.matches) = returned.match_count
            /\ {returned.matches[k].sequence_index :
                   k \in DOMAIN returned.matches} = hits
            /\ StrictlyAscending([k \in DOMAIN returned.matches |->
                                     returned.matches[k].sequence_index])
            /\ \A k \in DOMAIN returned.matches :
                  LET record == returned.matches[k]
                      sequence == sequences[record.sequence_index + 1].sequence
                  IN  /\ record.position =
                            Lowest(Occurrences(sequence, pattern))
                      /\ record.matched_sequence =
                            SubSeq(sequence, record.position + 1,
                                   record.position + Len(pattern))

(* two sequences, the first with two occurrences *)
C23_Witness ==
    /\ kernel_call.function = "findSingleMotif"
    /\ Len(kernel_call.args.sequences) = 2
    /\ Cardinality(Occurrences(kernel_call.args.sequences[1].sequence,
                               CalledMotif.pattern)) = 2
    /\ kernel_call.returned.match_count = 2
    /\ Len(kernel_call.returned.matches) = 2

(* C24: every result of findSingleMotif has match_count <= |sequences| and   *)
(* frequency = match_count / |sequences|, between 0 and 1; the frequency is  *)
(* 0 exactly when match_count is 0, and it is 0 for an empty sequence list.  *)
C24_Frequency ==
    kernel_call.function = "findSingleMotif" =>
        LET total == Len(kernel_call.args.sequences)
            returned == kernel_call.returned
            frequency == returned.frequency
        IN  /\ returned.match_count <= total
            /\ frequency.den > 0
            /\ total > 0 =>
                  frequency.num * total = returned.match_count * frequency.den
            /\ 0 <= frequency.num /\ frequency.num <= frequency.den
            /\ frequency.num = 0 <=> returned.match_count = 0
            /\ total = 0 => frequency.num = 0

(* one of two sequences matches: frequency 1/2 *)
C24_Witness ==
    /\ kernel_call.function = "findSingleMotif"
    /\ Len(kernel_call.args.sequences) = 2
    /\ kernel_call.returned.match_count = 1
    /\ kernel_call.returned.frequency = [num |-> 1, den |-> 2]

(* C25: findMotifs returns exactly one result per motif, in motif order:     *)
(* result i carries the pattern of motif i and equals what findSingleMotif   *)
(* returns for the same sequences and motif i; an empty motif list gives an  *)
(* empty result list.                                                        *)
C25_OnePerMotif ==
    kernel_call.function = "findMotifs" =>
        LET args == kernel_call.args
            returned == kernel_call.returned
        IN  /\ Len(returned) = Len(args.motifs)
            /\ \A i \in DOMAIN args.motifs :
                  /\ returned[i].motif_pattern = args.motifs[i].pattern
                  /\ returned[i] = findSingleMotif(args.sequences, args.motifs[i])
            /\ args.motifs = <<>> => returned = <<>>

(* two motifs with different results *)
C25_Witness ==
    /\ kernel_call.function = "findMotifs"
    /\ Len(kernel_call.args.motifs) = 2
    /\ Len(kernel_call.returned) = 2
    /\ kernel_call.returned[1].match_count > kernel_call.returned[2].match_count
    /\ kernel_call.returned[1].motif_pattern
          # kernel_call.returned[2].motif_pattern

(* the call is made on the five sequences and the motifs of the scenario *)
OnScenario ==
    /\ kernel_call.args.sequences = ScenarioSequences
    /\ kernel_call.args.motifs = ScenarioMotifs

(* the offsets 0, 4, ..., 32 *)
EveryFourth == [k \in 1 .. 9 |-> 4 * (k - 1)]

(* C26: on the five 40-symbol sequences ATGC x10, T x40, G x40, C x40,       *)
(* ATGC x10, findMotifInSequence of the first sequence yields 9 records at   *)
(* offsets 0, 4, ..., 32 for ATGCATGC; findSingleMotif over all five yields  *)
(* match_count 2, for sequence indices 0 and 4, and frequency 2/5; and the   *)
(* ambiguous ATRCATGC yields the same offsets, match_count and frequency.    *)
C26_Scenario ==
    OnScenario =>
        /\ kernel_call.function = "findMotifInSequence"
              /\ kernel_call.args.seq_i = 1 =>
                 [k \in DOMAIN kernel_call.returned |->
                     kernel_call.returned[k].position] = EveryFourth
        /\ kernel_call.function = "findSingleMotif" =>
              /\ kernel_call.returned.match_count = 2
              /\ [k \in DOMAIN kernel_call.returned.matches |->
                     kernel_call.returned.matches[k].sequence_index] = <<0, 4>>
              /\ kernel_call.returned.frequency = [num |-> 2, den |-> 5]
        /\ kernel_call.function = "findMotifs" =>
              /\ Len(kernel_call.returned) = 2
              /\ kernel_call.returned[2] =
                    [kernel_call.returned[1] EXCEPT
                        !.motif_pattern = ScenarioMotifs[2].pattern]

(* the ambiguous motif found nine times in the first sequence *)
C26_Witness ==
    /\ OnScenario
    /\ kernel_call.function = "findMotifInSequence"
    /\ kernel_call.args.seq_i = 1
    /\ CalledMotif.pattern = <<"A", "T", "R", "C", "A", "T", "G", "C">>
    /\ Len(kernel_call.returned) = 9
    /\ kernel_call.returned[9].position = 32

(* C27: findSingleMotif is repeatable: a call on the same engine with the    *)
(* sequences and the motif of an earlier call returns the result that call   *)
(* returned (pattern, match_count, frequency and matches), whatever the      *)
(* engine did and kept in between: other calls of findSingleMotif with other *)
(* arguments, findMotifs, findMotifsParallel, resetPerformanceStats.  The    *)
(* kept result is that of an earlier call: keeping a result takes it from    *)
(* the call, so the result compared with it is returned by a later one.      *)
C27_Repeatable ==
    /\ kernel_call.function = "findSingleMotif"
    /\ kernel_call.kept # <<>>
    /\ kernel_call.kept[1].sequences = kernel_call.args.sequences
    /\ kernel_call.kept[1].motif = kernel_call.args.motifs[kernel_call.args.motif_i]
    => kernel_call.returned = kernel_call.kept[1].returned

(* a later call with the arguments of a kept result that has a match, on an  *)
(* engine that has timed findSingleMotif and a parallel batch since          *)
C27_Witness ==
    /\ kernel_call.function = "findSingleMotif"
    /\ kernel_call.kept # <<>>
    /\ kernel_call.kept[1].sequences = kernel_call.args.sequences
    /\ kernel_call.kept[1].motif = kernel_call.args.motifs[kernel_call.args.motif_i]
    /\ {"find_single_motif", "find_motifs_parallel", "process_single_motif"}
           \subseteq kernel_call.performance_stats_
    /\ kernel_call.returned.match_count > 0
    /\ Len(kernel_call.args.sequences) < Len(kernel_call.corpus)

(* every rank has entered its k-th synchronize call *)
EveryoneEntered(k) == \A q \in Ranks : Entered(q) >= k
(* every rank has returned from its k-th synchronize call *)
EveryoneLeft(k) == \A q \in Ranks : runs[q] >= k

(* C28: synchronize is a barrier: no rank has returned from its k-th         *)
(* synchronize call unless every rank has entered its k-th call, and once    *)
(* all ranks have entered their k-th call they all eventually return from it *)
C28_Barrier ==
    /\ [](\A r \in Ranks : EveryoneEntered(runs[r]))
    /\ \A k \in 1 .. MaxBarriers : EveryoneEntered(k) ~> EveryoneLeft(k)

(* three ranks are through their second barrier *)
C28_Witness ==
    /\ size_ = 3
    /\ EveryoneLeft(2)
    /\ \E r \in Ranks : pc[r] = "synchronize" /\ runs[r] = 2
    /\ \E r \in Ranks : pc[r] = "running" /\ runs[r] = 2

(* C29: the program started with only the help option, -h or --help, and no *)
(* file arguments accepts the command line and ends with exit status 0.      *)
C29_HelpAlone ==
    /\ main_call.function = "main"
    /\ Len(main_call.args) = 1
    /\ IsHelp(main_call.args[1])
    => main_call.status = 0 /\ main_call.error = "none"

(* the elements of a set of numbers, ascending *)
RECURSIVE Ascending(_)
Ascending(numbers) ==
    IF numbers = {} THEN <<>>
    ELSE <<Lowest(numbers)>> \o Ascending(numbers \ {Lowest(numbers)})

RECURSIVE Concatenated(_)
Concatenated(strs) ==
    IF strs = <<>> THEN <<>> ELSE Head(strs) \o Concatenated(Tail(strs))

(* The records a sequence file stands for.  As written: a header is a line   *)
(* whose first character is '>', its sequence lines are the non-blank lines  *)
(* up to the next header, and its symbols are those lines one after the      *)
(* other.  As stripped: every line is first stripped of the whitespace at    *)
(* its two ends, and the whitespace left inside a sequence line is dropped.  *)
FileRecords(content, stripped) ==
    LET raw == splitLines(content)
        lines == [k \in DOMAIN raw |-> IF stripped THEN trim(raw[k]) ELSE raw[k]]
        IsHeader(k) == lines[k] # <<>> /\ lines[k][1] = ">"
        IsBlank(k) == \A c \in Elements(lines[k]) : c \in Whitespace
        headers == {k \in DOMAIN lines : IsHeader(k)}
        Body(h) == {k \in DOMAIN lines :
                       /\ k > h
                       /\ ~IsBlank(k)
                       /\ \A between \in h + 1 .. k : ~IsHeader(between)}
        Symbols(h) ==
            LET joined == Concatenated([k \in DOMAIN Ascending(Body(h)) |->
                                           lines[Ascending(Body(h))[k]]])
            IN  IF stripped
                THEN SelectSeq(joined, LAMBDA c : c \notin Whitespace)
                ELSE joined
        Fields(h) == split(lines[h], "\t")
        kept == Ascending({h \in headers :
                    /\ Body(h) # {}
                    /\ \A c \in Elements(Symbols(h)) :
                          toupper(c) \in {"A", "T", "G", "C"}})
    IN  [k \in DOMAIN kept |->
            [id |-> Tail(Fields(kept[k])[1]),
             sequence |-> Symbols(kept[k]),
             metadata |-> Tail(Fields(kept[k]))]]

(* C30 as stated: parseChIPSequences returns, in file order, one sequence    *)
(* for each header line ('>' first) followed by at least one non-blank       *)
(* sequence line before the next header or the end of the file, with the id  *)
(* the first tab-separated header field without '>', the metadata the other  *)
(* header fields in order and the symbols the concatenation of its sequence  *)
(* lines; a record whose symbols are not all A/T/G/C in either case is       *)
(* skipped and the parse goes on; a missing file gives FileNotFound.         *)
C30_RecordsAsWritten ==
    parser_call.function = "parseChIPSequences" =>
        IF parser_call.file = "regular"
        THEN /\ parser_call.returned.has_value
             /\ parser_call.returned.value
                   = FileRecords(parser_call.content, FALSE)
        ELSE /\ ~parser_call.returned.has_value
             /\ parser_call.file = "missing" =>
                   parser_call.returned.error = "FileNotFound"

(* a regular file that cannot be read: the error is IOError and the          *)
(* statistics are untouched                                                  *)
UnreadableFile ==
    /\ parser_call.function = "parseChIPSequences"
    /\ parser_call.file = "unreadable"
    /\ parser_call.returned.error = "IOError" /\ parser_call.stats_ = {}

(* parseMotifs returned one motif from a file with a line it could not parse *)
MotifsParsed ==
    /\ parser_call.function = "parseMotifs"
    /\ Len(parser_call.returned.value) = 1
    /\ parser_call.returned.value[1].score2
          = Double("decimal", FALSE, <<"2", "5">>, 1)
    /\ parser_call.stats_ = {"files_opened", "files_closed", "motifs_parsed",
                             "motifs_parse_errors"}

(* C30, amended: the same, where every line is first stripped of leading and *)
(* trailing whitespace (so a header may be indented and loses trailing tabs  *)
(* and the empty fields they would end) and the symbols are the sequence     *)
(* lines one after the other without any whitespace inside them; a path that *)
(* is missing, is no regular file or cannot be opened yields FileNotFound,   *)
(* and a file whose read fails yields IOError.                               *)
C30_RecordsStripped ==
    parser_call.function = "parseChIPSequences" =>
        IF parser_call.file = "regular"
        THEN /\ parser_call.returned.has_value
             /\ parser_call.returned.value
                   = FileRecords(parser_call.content, TRUE)
        ELSE /\ ~parser_call.returned.has_value
             /\ parser_call.returned.error =
                   IF parser_call.file = "unreadable" THEN "IOError"
                   ELSE "FileNotFound"

(* a record with symbols outside A/T/G/C, then a record with metadata whose  *)
(* sequence line is lower-case and ends in a carriage return: the first is   *)
(* skipped, the second returned                                              *)
C30_Witness ==
    /\ parser_call.function = "parseChIPSequences"
    /\ parser_call.content =
          WriteLines(<< <<">", "t">>, <<"A", "N">>,
                        <<">", "s", "\t", "m">>, <<"g", "c", "\r">> >>)
    /\ parser_call.returned.value =
          << [id |-> <<"s">>, sequence |-> <<"g", "c">>,
              metadata |-> << <<"m">> >>] >>
    /\ "sequences_invalid" \in parser_call.returned.stats

(* the receive rank d is about to post *)
ReceiveWant(d) ==
    IF pc[d] = "distribute" THEN DistributeWant(loc[d]) ELSE GatherWant(loc[d])

(* a receive completes on the oldest message of its channel, and that        *)
(* message has the tag, the element type and the element count of the        *)
(* receive; a non-root MPI_Bcast has the type and count of the root's        *)
ReceiveInOrder ==
    /\ \A s \in Ranks : \A d \in Ranks :
          Len(chan'[s][d]) < Len(chan[s][d]) =>
             /\ chan'[s][d] = Tail(chan[s][d])
             /\ Head(chan[s][d]).tag = ReceiveWant(d).tag
             /\ Head(chan[s][d]).type = ReceiveWant(d).type
             /\ Head(chan[s][d]).count = ReceiveWant(d).count
    /\ \A r \in Ranks :
          ~isMaster(r) /\ bcastSeen'[r] > bcastSeen[r] =>
             /\ bcastLog[bcastSeen[r] + 1].type = BroadcastWant(loc[r]).type
             /\ bcastLog[bcastSeen[r] + 1].count = BroadcastWant(loc[r]).count

(* no rank is inside a scatter or a gather, and nothing is in flight *)
NothingInFlight ==
    (\A r \in Ranks : pc[r] \notin {"distribute", "gather"}) =>
        /\ ~mpiError
        /\ \A s \in Ranks : \A d \in Ranks : chan[s][d] = <<>>

(* every rank has returned from the broadcast: all made the same calls,     *)
(* 1 + 3 x patternCount in each broadcast so far                             *)
SameCollectives ==
    (\A r \in Ranks : pc[r] = "compute") =>
        /\ Len(bcastLog) = (runs[0] + 1) * (1 + 3 * Len(motifs[0]))
        /\ \A r \in Ranks : bcastSeen[r] = Len(bcastLog)

(* C31: in scatter and gather the messages a sender issues to a peer (tag,   *)
(* element type and element count, in order) are exactly the receives that   *)
(* peer posts from that sender; in broadcast every rank issues the same      *)
(* 1 + 3 x patternCount collective calls with the same element counts; when  *)
(* all ranks have returned no message is left unreceived and no receive is   *)
(* left unmatched.                                                           *)
C31_WireProtocol ==
    /\ [][ReceiveInOrder]_vars
    /\ [](NothingInFlight /\ SameCollectives)

(* three ranks are through a gather in which a worker sent two results *)
C31_Witness ==
    /\ size_ = 3
    /\ \A r \in Ranks : pc[r] = "idle" /\ runs[r] = 1
    /\ Len(local_results[1]) = 2
    /\ Len(all_results[0]) >= 2
    /\ \A s \in Ranks : \A d \in Ranks : chan[s][d] = <<>>

(* worker w failed while loading its input, in the call after runs[w] calls  *)
FailedWorker(w) == w \in Ranks /\ ~isMaster(w) /\ pc[w] = "failed"

(* C32: when a send blocks until its receive is posted, a worker that never  *)
(* enters distributeSequences stalls the run: the coordinator does not get   *)
(* past its first send to that worker, which stays unreceived, no rank       *)
(* returns from that distributeSequences, and so no rank returns from that   *)
(* processMotifs.                                                            *)
C32_FailedWorkerStalls ==
    eagerLimit = 0 =>
        \A w \in Ranks : FailedWorker(w) =>
            /\ \A r \in Ranks : runs[r] <= runs[w]
            /\ \A r \in Ranks :
                  runs[r] = runs[w] => pc[r] \in {"idle", "distribute", "failed"}
            /\ pc[0] = "distribute" /\ runs[0] = runs[w] =>
                  /\ loc[0].k <= w + 1
                  /\ loc[0].k = w + 1 =>
                        chan[0][w] = << Msg(0, "MPI_UNSIGNED_LONG", 1,
                                            <<Len(all_sequences[0])>>) >>

(* three ranks with blocking sends: rank 2 failed, the coordinator is stuck  *)
(* in its send to it and rank 1 waits for its count                          *)
C32_Witness ==
    /\ eagerLimit = 0
    /\ size_ = 3
    /\ FailedWorker(2)
    /\ pc[0] = "distribute" /\ loc[0].k = 3 /\ chan[0][2] # <<>>
    /\ pc[1] = "distribute" /\ loc[1].at = "count"


(* the slice of the coordinator's input that belongs to rank r *)
JobSlice(r) ==
    LET N == Len(all_sequences[0])
    IN  SubSeq(all_sequences[0], PartitionStart(N, r, size_) + 1,
               PartitionStart(N, r, size_) + PartitionCount(N, r, size_))

(* rank r's block of the list the coordinator returns, for K patterns *)
RankBlock(r) ==
    SubSeq(all_results[0], r * Len(motifs[0]) + 1, (r + 1) * Len(motifs[0]))

(* C33: on the coordinator processMotifs over P ranks and K patterns returns *)
(* P x K entries, the ranks' local results concatenated in rank order: the   *)
(* block of rank r holds exactly one result per pattern of the coordinator,  *)
(* whose match_count is the number of sequences of rank r's slice of the     *)
(* coordinator's input that contain the pattern and whose frequency is that  *)
(* count divided by the size of the slice, 0 for an empty slice.             *)
C33_RankBlocks ==
    ProcessReturned(0) =>
        /\ Len(all_results[0]) = size_ * Len(motifs[0])
        /\ \A r \in Ranks :
              /\ (pc[r] = "idle" /\ runs[r] = runs[0]) =>
                    CarriedList(RankBlock(r)) = CarriedList(local_results[r])
              /\ \A j \in DOMAIN motifs[0] :
                    LET pattern == motifs[0][j].pattern
                        count == Cardinality(MatchingSequences(JobSlice(r), pattern))
                        entries == {i \in DOMAIN RankBlock(r) :
                                       RankBlock(r)[i].motif_pattern = pattern}
                    IN  /\ Cardinality(entries) = 1
                        /\ \A i \in entries :
                              /\ RankBlock(r)[i].match_count = count
                              /\ RankBlock(r)[i].frequency =
                                    IF Len(JobSlice(r)) = 0 THEN Zero
                                    ELSE Quotient(count, Len(JobSlice(r)))

(* two ranks, two patterns, three sequences: four entries, the worker's      *)
(* block counted over its one sequence, the coordinator's over its two       *)
C33_Witness ==
    /\ size_ = 2 /\ Len(motifs[0]) = 2 /\ Len(all_sequences[0]) = 3
    /\ \A r \in Ranks : ProcessReturned(r) /\ runs[r] = 1
    /\ Len(all_results[0]) = 4
    /\ \A i \in 1 .. 2 : all_results[0][i].frequency = Quotient(1, 2)
    /\ \A i \in 3 .. 4 : /\ all_results[0][i].match_count = 1
                          /\ all_results[0][i].frequency = Quotient(1, 1)


(* the sum of match_count over the entries of results for pattern *)
RECURSIVE SumMatchCount(_, _)
SumMatchCount(results, pattern) ==
    IF results = <<>> THEN 0
    ELSE (IF Head(results).motif_pattern = pattern
          THEN Head(results).match_count ELSE 0)
         + SumMatchCount(Tail(results), pattern)

(* C34: for every pattern of the coordinator and every number of ranks, the  *)
(* match_count of the entries for the pattern in the list processMotifs      *)
(* returns on the coordinator sum to the number of sequences of the          *)
(* coordinator's whole input that contain the pattern: the partitioning      *)
(* counts no sequence twice and misses none.                                 *)
C34_CountsAddUp ==
    ProcessReturned(0) =>
        \A j \in DOMAIN motifs[0] :
            SumMatchCount(all_results[0], motifs[0][j].pattern) =
                Cardinality(MatchingSequences(all_sequences[0], motifs[0][j].pattern))

(* three ranks with one sequence each, two of which contain the pattern *)
C34_Witness ==
    /\ size_ = 3 /\ Len(all_sequences[0]) = 3 /\ Len(motifs[0]) = 1
    /\ ProcessReturned(0)
    /\ Len(all_results[0]) = 3
    /\ all_results[0][1].match_count = 1
    /\ all_results[0][2].match_count = 0
    /\ all_results[0][3].match_count = 1
    /\ SumMatchCount(all_results[0], motifs[0][1].pattern) = 2


(* C35: gatherResults carries no match records. Every result a rank computed *)
(* has as many match records as its match_count; in the list processMotifs   *)
(* returns on the coordinator, the coordinator's own block is its local      *)
(* results with their match lists, and every entry appended from a rank      *)
(* r >= 1 has an empty match list whatever its match_count.                  *)
C35_MatchesNotCarried ==
    /\ \A r \in Ranks : \A i \in DOMAIN local_results[r] :
          Len(local_results[r][i].matches) = local_results[r][i].match_count
    /\ ProcessReturned(0) =>
          \A i \in DOMAIN all_results[0] :
              IF i <= Len(local_results[0])
              THEN /\ all_results[0][i] = local_results[0][i]
                   /\ Len(all_results[0][i].matches) = all_results[0][i].match_count
              ELSE all_results[0][i].matches = <<>>

(* the coordinator returned a list whose first entry has its one match       *)
(* record and whose entry from rank 1 counts one match and records none      *)
C35_Witness ==
    /\ size_ = 2 /\ ProcessReturned(0)
    /\ Len(local_results[0]) = 1 /\ Len(all_results[0]) = 2
    /\ all_results[0][1].match_count = 1 /\ Len(all_results[0][1].matches) = 1
    /\ all_results[0][2].match_count = 1 /\ all_results[0][2].matches = <<>>


(* C36: what a rank gets back from distributeSequences is its slice of the   *)
(* coordinator's list and what it gets back from broadcastMotifs is the      *)
(* coordinator's list, whatever list the rank itself passed (none, another   *)
(* one, or the coordinator's); and gatherResults returns the empty list on   *)
(* every rank but the coordinator, whatever results the rank passed.         *)
C36_WorkerArgumentsIgnored ==
    \A r \in Ranks :
        /\ ScatterReturned(r) => local_sequences[r] = JobSlice(r)
        /\ BroadcastReturned(r) => local_motifs[r] = motifs[0]
        /\ (GatherReturned(r) /\ ~isMaster(r)) => all_results[r] = <<>>

(* rank 1 passed no list and rank 2 another file's list, and both returned   *)
(* their slice of the coordinator's three sequences                          *)
C36_ScatterWitness ==
    /\ size_ = 3 /\ Len(all_sequences[0]) = 3
    /\ all_sequences[1] = <<>> /\ all_sequences[2] = OtherSequences
    /\ \A r \in Ranks : ScatterReturned(r) /\ local_sequences[r] = <<SeqPool[r + 1]>>

C36_BroadcastWitness ==
    /\ size_ = 3 /\ Len(motifs[0]) = 2
    /\ motifs[1] = OtherMotifs /\ motifs[2] = <<>>
    /\ \A r \in Ranks : BroadcastReturned(r) /\ local_motifs[r] = SubSeq(MotifPool, 1, 2)

C36_GatherWitness ==
    /\ size_ = 2 /\ Len(local_results[1]) = 2
    /\ \A r \in Ranks : GatherReturned(r)
    /\ all_results[1] = <<>> /\ Len(all_results[0]) >= 2


(* the pattern indices thread t has processed, in the order of its private   *)
(* list (the patterns of a batch are told apart by their symbols)            *)
IndexOf(result) ==
    CHOOSE j \in DOMAIN batch_motifs : batch_motifs[j].pattern = result.motif_pattern
ProcessedBy(t) == [n \in DOMAIN thread_results[t] |-> IndexOf(thread_results[t][n])]

(* the threads that have left the critical section, in every order *)
MergeOrders ==
    LET joined == {t \in Threads : thread[t] = "joined"}
    IN  {o \in [1 .. Cardinality(joined) -> joined] :
            \A m, n \in DOMAIN o : m # n => o[m] # o[n]}

(* C37: in the thread-parallel batch no pattern index is processed by two    *)
(* threads and at the return every index has been processed by one; each     *)
(* thread's private list is in ascending pattern-index order; the shared     *)
(* output is the whole private lists of the threads that have merged, one    *)
(* after the other in some order; and with one thread the returned list is   *)
(* the sequential batch's list in its order.                                 *)
C37_WholeThreadLists ==
    batch \in {"region", "returned"} =>
        /\ \A t \in Threads : StrictlyAscending(ProcessedBy(t))
        /\ \A t, u \in Threads :
              t # u => Elements(ProcessedBy(t)) \cap Elements(ProcessedBy(u)) = {}
        /\ \E o \in MergeOrders :
              batch_results = Flatten([n \in DOMAIN o |-> thread_results[o[n]]])
        /\ batch = "returned" =>
              /\ \A j \in DOMAIN batch_motifs :
                    \E t \in Threads : j \in Elements(ProcessedBy(t))
              /\ omp_threads = 1 =>
                    batch_results = findMotifs(batch_sequences, batch_motifs)

(* two threads, three patterns: one thread processed the first and the       *)
(* third, the other the second, whose list was merged first                  *)
C37_Witness ==
    /\ batch = "returned" /\ omp_threads = 2 /\ Len(batch_motifs) = 3
    /\ \E t, u \in Threads :
          /\ ProcessedBy(t) = <<1, 3>> /\ ProcessedBy(u) = <<2>>
          /\ batch_results = thread_results[u] \o thread_results[t]


(* get() returned a list that is not the one the batch stored *)
StaleListReturned ==
    /\ kernel_call.got.asked /\ ~kernel_call.got.intact
    /\ Len(findMotifs(kernel_call.sequences, kernel_call.motifs)) = 2

(* the list get() returned was released and the process went on, or ended *)
ResultsReleased ==
    /\ kernel_call.got.asked
    /\ kernel_call.results = "destroyed" \/ kernel_call.process = "faulted"

(* a Task that was moved from was destroyed with its null handle, and the    *)
(* Task that took the handle released the frame again                        *)
MovedFromDestroyed ==
    \E t, u \in Tasks :
        /\ kernel_call.tasks[t] = [life |-> "destroyed", handle |-> 0]
        /\ kernel_call.tasks[u].life = "destroyed"
        /\ kernel_call.tasks[u].handle # 0
        /\ kernel_call.frames[kernel_call.tasks[u].handle].releases = 2

(* C38 as stated: once findMotifsAsync has returned, the sequential batch    *)
(* has run, the frame of the Task is alive as long as a Task refers to it,   *)
(* ready() is true, get() yields the list findMotifs returns for the same    *)
(* inputs, and the frame is released exactly once, when the Task that refers *)
(* to it is destroyed.                                                       *)
C38_CompletedHandle ==
    /\ kernel_call.process = "running"
    /\ \A t \in Tasks :
          LET task == kernel_call.tasks[t]
          IN  /\ task.life = "held" /\ task.handle # 0 =>
                    /\ kernel_call.batch_done
                    /\ kernel_call.frames[task.handle] =
                           [state |-> "suspended", releases |-> 0]
              /\ task.life = "destroyed" /\ task.handle # 0 =>
                    kernel_call.frames[task.handle] =
                        [state |-> "released", releases |-> 1]
    /\ kernel_call.ready \in {"unasked", "true"}
    /\ kernel_call.got.asked =>
          /\ kernel_call.got.intact
          /\ kernel_call.got.value =
                 findMotifs(kernel_call.sequences, kernel_call.motifs)

(* C38, what holds: the sequential batch has run when findMotifsAsync        *)
(* returns, and the frame has been released by then, before any query of     *)
(* the Task; a Task that is destroyed with its handle has released it a      *)
(* second time.                                                              *)
C38_FrameReleasedAtReturn ==
    \A t \in Tasks :
        LET task == kernel_call.tasks[t]
        IN  /\ task.life = "held" /\ task.handle # 0 =>
                  /\ kernel_call.batch_done
                  /\ kernel_call.frames[task.handle].state = "released"
                  /\ kernel_call.frames[task.handle].releases >= 1
            /\ task.life = "destroyed" /\ task.handle # 0 =>
                  kernel_call.frames[task.handle].releases = 2

(* a Task that answered ready() with false and get() with another list than  *)
(* the stored one, and whose destructor released the frame again             *)
C38_Witness ==
    /\ \E t \in Tasks :
          /\ kernel_call.tasks[t].life = "destroyed"
          /\ kernel_call.tasks[t].handle # 0
          /\ kernel_call.frames[kernel_call.tasks[t].handle].releases = 2
    /\ kernel_call.ready = "false"
    /\ Len(kernel_call.motifs) = 2
    /\ kernel_call.got.asked /\ ~kernel_call.got.intact


(* the receiver has decoded the count or length *)
PrefixDecoded == codes_call.receiver \in {"done", "length_error", "mpi_error"}

(* the decoded value is the size of the sender's container or string *)
DecodedExact ==
    IF codes_call.prefix.ctype = "int"
    THEN codes_call.size.high = 0 /\ codes_call.decoded = codes_call.size.low
    ELSE codes_call.decoded = codes_call.size

(* neither side ended in an error *)
PrefixNoError ==
    /\ codes_call.sender # "mpi_error"
    /\ codes_call.receiver \notin {"mpi_error", "length_error"}

(* C39 as stated: every count and length of the three operations is sent and *)
(* received as a 32-bit integer of one type, and the receiver decodes the    *)
(* sender's actual element count or byte length, for every size a list or a  *)
(* string can have.                                                          *)
C39_PrefixesExact ==
    /\ codes_call.prefix.send_type = "MPI_INT"
    /\ codes_call.prefix.recv_type = "MPI_INT"
    /\ PrefixNoError
    /\ PrefixDecoded => DecodedExact

(* C39, what holds: the two sides use the same datatype for every count and  *)
(* length, and the decoded value is the sender's size whenever that size is  *)
(* at most INT_MAX; the two counts of distributeSequences travel as 64-bit   *)
(* unsigned integers and are exact for every size.                           *)
C39_ExactUpToIntMax ==
    /\ codes_call.prefix.send_type = codes_call.prefix.recv_type
    /\ codes_call.prefix.send_type = "MPI_UNSIGNED_LONG" <=>
          codes_call.prefix.variable \in {"total_sequences", "count"}
    /\ (codes_call.size.high = 0 \/ codes_call.prefix.ctype = "size_t") =>
          /\ PrefixNoError
          /\ PrefixDecoded => DecodedExact

(* a string of 2^31 bytes is announced with length -2^31, on which the       *)
(* receiver throws and the sender's next send fails; and a string of         *)
(* 2^32 + 5 bytes was announced and sent as 5 bytes                          *)
C39_SignChange ==
    /\ codes_call.prefix.variable = "seq_len"
    /\ codes_call.size = Size(1, 0) /\ codes_call.decoded = INT_MIN
    /\ codes_call.receiver = "length_error"
    /\ codes_call.sender = "mpi_error"

C39_Truncation ==
    /\ codes_call.prefix.variable = "seq_len"
    /\ codes_call.size = Size(2, 5) /\ codes_call.decoded = 5
    /\ codes_call.receiver = "done"
    /\ codes_call.sender = "done" /\ codes_call.payload = 5

(* C40: for every N >= 0 and P >= 1 the counts of ranks 0..P-1 never grow    *)
(* with the rank and differ by at most 1 between any two ranks, the ranks    *)
(* below N mod P being those with one item more, N div P + 1, and every      *)
(* range [start, start + count) lies inside [0, N].                          *)
C40_BalancedOrdered ==
    /\ \A j, k \in DOMAIN parts :
          j < k => /\ parts[j].count >= parts[k].count
                   /\ parts[j].count - parts[k].count <= 1
    /\ \A k \in DOMAIN parts :
          /\ parts[k].count = (total_sequences \div total_processes)
                + (IF k - 1 < total_sequences % total_processes THEN 1 ELSE 0)
          /\ 0 <= parts[k].start
          /\ parts[k].start + parts[k].count <= total_sequences

(* N = 11 over P = 4: counts 3, 3, 3, 2 at starts 0, 3, 6, 9 *)
C40_Witness ==
    /\ Len(parts) = 4 /\ total_processes = 4 /\ total_sequences = 11
    /\ [k \in 1 .. 4 |-> parts[k].count] = <<3, 3, 3, 2>>
    /\ [k \in 1 .. 4 |-> parts[k].start] = <<0, 3, 6, 9>>

====
